---------------------------- MODULE Spec2Model ----------------------------
(***************************************************************************)
(* Coordination protocol of the Salesforce Setup side panel extension:     *)
(* the background Coordinator (tab table, panel open, LOAD_SETUP retry),   *)
(* the Panel Renderer (sidepanel.js) and the messages between them.        *)
(*                                                                         *)
(* The repository holds two generations of the Coordinator:                *)
(*   "background"  background.js:100-244 (tabs.onUpdated, handleMessage)   *)
(*   "part_002"    unnamed/part_002 (SETUP_LINK_CLICKED with one retry)    *)
(* The variable coordinator selects which of the two is running; it never  *)
(* changes during a behaviour.                                             *)
(*                                                                         *)
(* Spec is the protocol between pages, Coordinator and Renderer.           *)
(* RendererSpec is the Renderer alone, driven by the LOAD_SETUP commands   *)
(* that reach its listener.  ObserverSpec is the content script            *)
(* (content.js:1-288) of one page, driven by the page's events and by the  *)
(* outcomes of its sends.                                                  *)
(* EndToEndSpec joins one page's content script, the part_002 Coordinator  *)
(* and the Renderer.  ClassifierSpec applies the URL classifiers of the    *)
(* three components to one URL.  WatchSpec is the click-watch of           *)
(* setupLinkInterception (content.js:234-257).  VisibilitySpec is the      *)
(* started panel being hidden and shown again.                             *)
(* FrameSpec is the Renderer with its iframe elements told apart.          *)
(* TwoClicksSpec is the part_002 Coordinator with two SETUP_LINK_CLICKED   *)
(* of one tab under way.  WindowsSpec adds a panel surface that is open in *)
(* another window.                                                         *)
(*                                                                         *)
(* A URL is a sequence of tokens ("https://", host labels, ".", "/", ...). *)
(* Every string test of the code (endsWith, includes, regexp search) is a  *)
(* suffix or infix test on the token sequence; "salesforce" is the two     *)
(* tokens "sales","force" so that 'salesforce.com'.endsWith('force.com')   *)
(* is true as in JavaScript.                                               *)
(***************************************************************************)
EXTENDS Integers, Sequences, FiniteSets, TLC

\* ------------------------------------------------------------------ bounds
NumTabs == 1
MaxInFlight == 1
MaxListeners == 2
MaxTimers == 1
MaxChain == 3
MaxWatches == 2
MaxFrames == 3

Tabs == 1..NumTabs
NoTab == 0

\* one slot per message a page has in flight to the Coordinator, and slot 0
\* for the request the panel page has in flight
Slots == 1..MaxInFlight
PanelSlot == 0
AllSlots == {PanelSlot} \cup Slots

\* -------------------------------------------------------------------- URLs
NoUrl == << >>

UrlA == <<"https://", "myorg", ".", "force", ".", "com", "/", "setup", "/", "a">>
UrlB == <<"https://", "myorg", ".", "force", ".", "com", "/", "setup", "/", "b">>
UrlEvil == <<"https://", "evil", ".", "example", ".", "com", "/", "setup", "/", "a">>
UrlEvilForce == <<"https://", "evil", "force", ".", "com", "/", "setup", "/", "a">>
UrlQuery == <<"https://", "evil", ".", "example", ".", "com", "/", "?", ".", "force", ".", "com">>
UrlVf == <<"https://", "x", ".", "visual", "force", ".", "com", "/", "apex">>
UrlMalformed == <<"setup", "/", "a">>

MsgUrls == {UrlA, UrlB, UrlEvil, NoUrl}
NavUrls == {UrlA, UrlQuery, UrlVf}

Min(a, b) == IF a < b THEN a ELSE b

EndsWith(s, suf) ==
    /\ Len(s) >= Len(suf)
    /\ SubSeq(s, Len(s) - Len(suf) + 1, Len(s)) = suf

Includes(s, pat) ==
    \E i \in 1..(Len(s) + 1) :
        /\ i + Len(pat) - 1 <= Len(s)
        /\ SubSeq(s, i, i + Len(pat) - 1) = pat

\* position of the first "/" or "?" after the scheme, Len(u)+1 if none
RECURSIVE HostEnd(_, _)
HostEnd(u, i) ==
    IF i > Len(u) THEN i
    ELSE IF u[i] \in {"/", "?"} THEN i
    ELSE HostEnd(u, i + 1)

\* new URL(url): throws (ok = FALSE) unless a scheme and a host are present
ParseURL(u) ==
    IF Len(u) >= 2 /\ u[1] = "https://" /\ HostEnd(u, 2) > 2
    THEN [ok |-> TRUE, hostname |-> SubSeq(u, 2, HostEnd(u, 2) - 1)]
    ELSE [ok |-> FALSE, hostname |-> << >>]

\* part_002 SALESFORCE_DOMAINS keys
CoordinatorDomains ==
    { <<".", "sales", "force", ".", "com">>,
      <<".", "force", ".", "com">>,
      <<".", "lightning", ".", "force", ".", "com">>,
      <<".", "visual", "force", ".", "com">>,
      <<".", "sales", "force", "-", "setup", ".", "com">> }

isSalesforceDomain(url) ==
    LET p == ParseURL(url) IN
    IF p.ok THEN \E d \in CoordinatorDomains : EndsWith(p.hostname, d)
    ELSE FALSE

\* sidepanel.js SALESFORCE_DOMAINS keys (no leading dot)
RendererDomains ==
    { <<"sales", "force", ".", "com">>,
      <<"force", ".", "com">>,
      <<"sales", "force", "-", "setup", ".", "com">>,
      <<"visual", "force", ".", "com">>,
      <<"lightning", ".", "com">> }

validateSalesforceDomain(url) ==
    LET p == ParseURL(url) IN
    IF p.ok THEN \E d \in RendererDomains : EndsWith(p.hostname, d)
    ELSE FALSE

\* background.js:146  tab.url.match(/\.(salesforce\.com|force\.com|salesforce-setup\.com)/)
UpdatedRegexAlternatives ==
    { <<".", "sales", "force", ".", "com">>,
      <<".", "force", ".", "com">>,
      <<".", "sales", "force", "-", "setup", ".", "com">> }

isSalesforceUrl(tabUrl) ==
    \E a \in UpdatedRegexAlternatives : Includes(tabUrl, a)


\* ------------------------------------------------------------------- state
VARIABLES
    coordinator,   \* which generation of the Coordinator runs
    tabs,          \* host: lifecycle of each tab, "open" or "removed"
    tabState,      \* Coordinator: state.tabState (Map tabId -> record)
    panelEnabled,  \* host: per-tab chrome.sidePanel.setOptions({enabled})
    slots,         \* messages to the Coordinator and their handlers' progress
    lastDetected,  \* history: url of the SETUP_DETECTED that was the last event
                   \* the Coordinator handled for the tab, NoUrl otherwise
    detectedRun,   \* history: how many SETUP_DETECTED with that url were
                   \* the last events handled for the tab, counted up to 2
    panel,         \* host: panel surface "closed" | "opening" | "listening"
    panelTab,      \* host: tab the panel surface was opened for
    rstate,        \* Renderer: this.state
    setupFrame,    \* Renderer: this.setupFrame (its src), NoUrl when null
    attached,      \* Renderer: number of content frames in the document
    lastLoad,      \* RendererSpec history: the last LOAD_SETUP command the
                   \* Renderer handled and what it passed to sendResponse
    replaced,      \* RendererSpec history: src of the frame that command
                   \* removed from the document, NoUrl if it removed none
    page,          \* ObserverSpec: the content script of one page of a
                   \* monitored site, its watchers and its sends in flight
    probe,         \* ClassifierSpec: a url under classification and what
                   \* the classifiers of the three components return for it
    watch,         \* WatchSpec: the click-watches of one page (content.js:
                   \* 234-257) and whether its location is a Setup url
    frames,        \* FrameSpec: the iframe elements the Renderer has created,
                   \* their listeners, and which one this.setupFrame is
    other          \* WindowsSpec: the Renderer of a panel surface that is
                   \* open in another window

vars == <<coordinator, tabs, tabState, panelEnabled, slots, lastDetected,
          detectedRun, panel, panelTab, rstate, setupFrame, attached, lastLoad, replaced,
          page, probe, watch,
                   frames, other>>

\* state that only RendererSpec, ObserverSpec, ClassifierSpec, WatchSpec,
\* FrameSpec and WindowsSpec drive; Spec leaves it as Init sets it
apartVars == <<lastLoad, replaced, page, probe, watch,
                   frames, other>>

coordVars == <<coordinator, tabs, tabState, panelEnabled, lastDetected,
              detectedRun>>
rendererVars == <<rstate, setupFrame, attached>>

\* a tab record; present = FALSE is "no entry in the Map".  A field the
\* JavaScript object does not have is "unset" / NoUrl.
AbsentRec ==
    [present |-> FALSE, isSalesforceTab |-> "unset", setupActive |-> FALSE,
     setupUrl |-> NoUrl, url |-> NoUrl]

NoState == AbsentRec

\* response envelopes passed to sendResponse
NoResp == [kind |-> "none", retried |-> FALSE, error |-> "", state |-> NoState]
RespSuccess(retried) ==
    [kind |-> "success", retried |-> retried, error |-> "", state |-> NoState]
\* an error response that loses its text
RespError_NoText(msg) ==
    [kind |-> "error", retried |-> FALSE, error |-> "", state |-> NoState]

RespError(msg) ==
    [kind |-> "error", retried |-> FALSE, error |-> msg, state |-> NoState]
\* {state: record}; of the record, the fields a caller reads (sidepanel.js:591
\* reads state.setupUrl) and setupActive are carried
RespState(rec) ==
    [kind |-> "state", retried |-> FALSE, error |-> "",
     state |-> [rec EXCEPT !.url = NoUrl, !.isSalesforceTab = "unset"]]
RespReceived ==
    [kind |-> "received", retried |-> FALSE, error |-> "", state |-> NoState]

\* message types; "NULL" is a message that is not an object (message.type throws)
UrlTypes == {"SETUP_DETECTED", "SETUP_LINK_CLICKED"}
PlainTypes == {"GET_TAB_STATE", "SETUP_ERROR", "OTHER", "NULL"}

\* classes of error.message a rejected host call carries
ConnError == "Could not establish connection"
OtherError == "other"
SendErrors == {ConnError, OtherError}
OpenErrors == {OtherError}

FreeSlot ==
    [pc |-> "free", type |-> "OTHER", url |-> NoUrl, sender |-> NoTab,
     nresp |-> 0, resp |-> NoResp,
     openRes |-> "none", sendLog |-> << >>]

NewMessage(type, url, sender) ==
    [pc |-> "sent", type |-> type, url |-> url, sender |-> sender,
     nresp |-> 0, resp |-> NoResp,
     openRes |-> "none", sendLog |-> << >>]

NoLoad == [url |-> NoUrl, reply |-> "none", before |-> NoUrl]

\* no SETUP_DETECTED in flight
NoSend == -1

\* content.js:234-257, one click-watch: the setupObserver a click on a
\* Setup control starts and its 3 s timer
\*   connected   the setupObserver observes the document
\*   timer       the setTimeout of line 256 is pending
\*   inFlight    its SETUP_LINK_CLICKED send has not settled
\*   sends, timedOut, lateSends    history: sends it has made (up to 2),
\*               its timer has fired, sends made after that
NoWatch ==
    [started |-> FALSE, connected |-> FALSE, timer |-> FALSE,
     inFlight |-> FALSE, sends |-> 0, timedOut |-> FALSE, lateSends |-> 0]

Watches == 1..MaxWatches

\* a page without click-watches whose location is not a Setup url, in a
\* valid extension context
NoWatches ==
    [setupUrl |-> FALSE, contextValid |-> TRUE,
     w |-> [i \in Watches |-> NoWatch]]

\* sidepanel.js:639-696, an iframe element the Renderer has created
\*   src         its src, NoUrl for an element not created yet
\*   inDoc       it is a child of the content container
\*   listening   handleLoadSuccess and handleLoadError are registered on it
\*   loadRaised  history: its load event was raised since its src was set
\*   reloaded    history: its src was set again after it was appended
\*   late        history: an event was raised on it after it was removed
NoFrame ==
    [src |-> NoUrl, inDoc |-> FALSE, listening |-> FALSE, loadRaised |-> FALSE,
     reloaded |-> FALSE, late |-> FALSE]

FrameIds == 1..MaxFrames

\* no iframe created; cur is the element this.setupFrame refers to, 0 for null
NoFrames == [cur |-> 0, f |-> [i \in FrameIds |-> NoFrame]]

\* no panel surface in another window
NoSurface ==
    [listening |-> FALSE, rstate |-> "initial", setupFrame |-> NoUrl,
     attached |-> 0]

\* no url under classification
NoProbe ==
    [variant |-> "none", url |-> NoUrl, markers |-> FALSE,
     observerSite |-> "unset", coordinatorSite |-> "unset",
     rendererSite |-> "unset", setupPage |-> "unset", setupNow |-> "unset"]

\* content.js:162-200, the page after the content script's top level has run
\* on a monitored site: the MutationObserver observes, the first
\* checkAndReportSetupPage() has run up to its await (a send in flight when
\* the page is a Setup page, a click listener installed otherwise) and the
\* load and unload listeners are registered.
\*   setup           the test of content.js:100-101 holds for the page now
\*   contextValid    host: the extension context of the script is valid
\*   pending         retries that led to the SETUP_DETECTED in flight, or NoSend
\*   timers          pending setTimeout(checkAndReportSetupPage, 2000), each
\*                   with the number of retries its send will have behind it
\*   clicks          SETUP_LINK_CLICKED sends in flight
\*   navigated       the tab has left the page
\*   failedInvalidated, lateSends, lastClick    history
\*   reported        history: a SETUP_DETECTED has been delivered since the
\*                   page's location and classification last changed
\*   repeats         history: SETUP_DETECTED sends made while reported (0 or 1)
\*   at              "start": the document the behaviour began with; "href":
\*                   the document the tab loaded after a click navigated it
ScriptStarted(isSetup) ==
    [setup |-> isSetup, contextValid |-> TRUE, extensionActive |-> TRUE,
     observing |-> TRUE, loadListener |-> TRUE, loaded |-> FALSE,
     clickListeners |-> IF isSetup THEN 0 ELSE 1,
     pending |-> IF isSetup THEN 0 ELSE NoSend,
     timers |-> << >>, clicks |-> 0, navigated |-> FALSE,
     failedInvalidated |-> FALSE, lateSends |-> 0, lastClick |-> "none",
     reported |-> FALSE, repeats |-> 0, at |-> "start"]

Init ==
    /\ coordinator \in {"background", "part_002"}
    /\ tabs = [t \in Tabs |-> "open"]
    /\ tabState = [t \in Tabs |-> AbsentRec]
    /\ panelEnabled = [t \in Tabs |-> TRUE]
    /\ slots = [s \in AllSlots |-> FreeSlot]
    /\ lastDetected = [t \in Tabs |-> NoUrl]
    /\ detectedRun = [t \in Tabs |-> 0]
    /\ panel = "closed"
    /\ panelTab = NoTab
    /\ rstate = "initial"
    /\ setupFrame = NoUrl
    /\ attached = 0
    /\ lastLoad = NoLoad
    /\ replaced = NoUrl
    /\ page = ScriptStarted(FALSE)
    /\ probe = NoProbe
    /\ watch = NoWatches
    /\ frames = NoFrames
    /\ other = NoSurface


\* ---------------------------------------------------------------- Renderer
Renderer ==
    [rstate |-> rstate, setupFrame |-> setupFrame, attached |-> attached]

InitialRenderer ==
    [rstate |-> "initial", setupFrame |-> NoUrl, attached |-> 0]

RendererBecomes(R) ==
    /\ rstate' = R.rstate
    /\ setupFrame' = R.setupFrame
    /\ attached' = R.attached

\* createSecureFrame that leaves the old frame in the document
createSecureFrame_KeepsOld(R, setupUrl) ==
    IF setupUrl = NoUrl
    THEN [R EXCEPT !.rstate = "error"]
    ELSE [rstate |-> "loading",
          setupFrame |-> setupUrl,
          attached |-> R.attached + 1]

\* createSecureFrame that shows the content as loaded at once
createSecureFrame_StartsLoaded(R, setupUrl) ==
    IF setupUrl = NoUrl
    THEN [R EXCEPT !.rstate = "error"]
    ELSE [rstate |-> "loaded",
          setupFrame |-> setupUrl,
          attached |-> (IF R.setupFrame # NoUrl THEN R.attached - 1
                        ELSE R.attached) + 1]

\* createSecureFrame that removes the old frame only once it has loaded
createSecureFrame_RemovesLoadedOnly(R, setupUrl) ==
    IF setupUrl = NoUrl
    THEN [R EXCEPT !.rstate = "error"]
    ELSE [rstate |-> "loading",
          setupFrame |-> setupUrl,
          attached |-> (IF R.setupFrame # NoUrl /\ R.rstate = "loaded"
                        THEN R.attached - 1
                        ELSE R.attached) + 1]

\* sidepanel.js:639-696.  A missing url throws after setState(LOADING) and
\* the catch sets ERROR; otherwise the old frame is removed and a new one
\* is appended with src = setupUrl.
createSecureFrame(R, setupUrl) ==
    IF setupUrl = NoUrl
    THEN [R EXCEPT !.rstate = "error"]
    ELSE [rstate |-> "loading",
          setupFrame |-> setupUrl,
          attached |-> (IF R.setupFrame # NoUrl THEN R.attached - 1
                        ELSE R.attached) + 1]

\* sidepanel.js:701-722, the Renderer's state after a LOAD_SETUP
handleMessage(R, url) ==
    IF url # NoUrl
    THEN IF validateSalesforceDomain(url)
         THEN createSecureFrame(R, url)
         ELSE [R EXCEPT !.rstate = "error"]
    ELSE R

\* sidepanel.js:708-716, what handleMessage passes to sendResponse; "none"
\* when it returns false without answering
handleMessageResponse(url) ==
    IF url # NoUrl
    THEN IF validateSalesforceDomain(url) THEN "success" ELSE "invalid"
    ELSE "none"

\* sidepanel.js:590-595, the continuation of getCurrentTabInfo
getCurrentTabInfoThen(R, resp) ==
    IF resp.kind = "state" /\ resp.state.present /\ resp.state.setupUrl # NoUrl
    THEN createSecureFrame(R, resp.state.setupUrl)
    ELSE R

\* chrome.runtime.sendMessage({type:'LOAD_SETUP', url}) from the Coordinator:
\* the outcomes the host can produce, and the Renderer after each.
\* No listening panel rejects with the connection error; a listening panel
\* runs handleMessage, or the port fails for another reason.
SendOutcomes ==
    IF panel = "listening" THEN {"ok", OtherError} ELSE {ConnError}

AfterSend(outcome, url) ==
    IF outcome = "ok" THEN handleMessage(Renderer, url) ELSE Renderer

\* ------------------------------------------------------------- Coordinator
Respond(m, r) == [m EXCEPT !.resp = r, !.nresp = @ + 1]

Finish(m, r) == [Respond(m, r) EXCEPT !.pc = "done"]

\* Merge that forgets to store the url
Merge_DropUrl(cur, url) ==
    [cur EXCEPT !.present = TRUE, !.setupActive = TRUE]

\* Merge that toggles setupActive instead of setting it
Merge_Toggles(cur, url) ==
    [cur EXCEPT !.present = TRUE, !.setupActive = ~@, !.setupUrl = url]

\* {...currentState, setupActive: true, setupUrl: url}
Merge(cur, url) ==
    [cur EXCEPT !.present = TRUE, !.setupActive = TRUE, !.setupUrl = url]

\* history: the event now handled for a tab
Event(kind, url) == IF kind = "SETUP_DETECTED" THEN url ELSE NoUrl

\* history: the run of equal SETUP_DETECTED events once event e is handled
Run(t, e) ==
    IF e = NoUrl THEN 0
    ELSE IF lastDetected[t] = e THEN Min(detectedRun[t] + 1, 2)
    ELSE 1

\* history: event e is now the last event handled for tab t
Handled(t, e) ==
    /\ lastDetected' = [lastDetected EXCEPT ![t] = e]
    /\ detectedRun' = [detectedRun EXCEPT ![t] = Run(t, e)]

\* a page (content script) or another extension context sends a message
ExternalSend(s, type, url, sender) ==
    /\ slots[s].pc = "free"
    /\ sender # NoTab => tabs[sender] = "open"
    /\ slots' = [slots EXCEPT ![s] = NewMessage(type, url, sender)]
    /\ UNCHANGED <<coordVars, panel, panelTab, rendererVars, apartVars>>

\* the listener with a GET_TAB_STATE branch that creates the record it reads
HandlePart002_GetStores(s) ==
    LET m == slots[s]
        t == m.sender
    IN  /\ coordinator = "part_002"
        /\ m.pc = "sent"
        /\ IF m.type = "NULL"
           THEN /\ slots' = [slots EXCEPT ![s] = Finish(m, RespError("TypeError"))]
                /\ UNCHANGED <<tabState, lastDetected, detectedRun>>
           ELSE IF m.type \in UrlTypes /\ m.url # NoUrl
           THEN IF t = NoTab
                THEN /\ slots' = [slots EXCEPT ![s] =
                                     Finish(m, RespError("No tab ID provided"))]
                     /\ UNCHANGED <<tabState, lastDetected, detectedRun>>
                ELSE IF ~isSalesforceDomain(m.url)
                THEN /\ slots' = [slots EXCEPT ![s] =
                                     Finish(m, RespError("Invalid Salesforce domain"))]
                     /\ Handled(t, Event(m.type, m.url))
                     /\ UNCHANGED tabState
                ELSE /\ tabState' = [tabState EXCEPT ![t] = Merge(@, m.url)]
                     /\ Handled(t, Event(m.type, m.url))
                     /\ IF m.type = "SETUP_LINK_CLICKED"
                        THEN slots' = [slots EXCEPT ![s] =
                                 [m EXCEPT !.pc = "open", !.openRes = "requested"]]
                        ELSE slots' = [slots EXCEPT ![s] =
                                 Finish(m, RespSuccess(FALSE))]
           ELSE IF m.type = "GET_TAB_STATE"
           THEN /\ slots' = [slots EXCEPT ![s] =
                       IF t = NoTab THEN Finish(m, RespError("No tab ID provided"))
                       ELSE Finish(m, RespState(tabState[t]))]
                /\ tabState' = IF t = NoTab THEN tabState
                               ELSE [tabState EXCEPT ![t].present = TRUE]
                /\ UNCHANGED <<lastDetected, detectedRun>>
           ELSE /\ slots' = [slots EXCEPT ![s] =
                                Finish(m, RespError("Unknown message type"))]
                /\ UNCHANGED <<tabState, lastDetected, detectedRun>>
        /\ UNCHANGED <<coordinator, tabs, panelEnabled, panel, panelTab, rendererVars, apartVars>>

\* part_002:61-173, the listener up to its return
HandlePart002(s) ==
    LET m == slots[s]
        t == m.sender
    IN  /\ coordinator = "part_002"
        /\ m.pc = "sent"
        /\ IF m.type = "NULL"
           THEN /\ slots' = [slots EXCEPT ![s] = Finish(m, RespError("TypeError"))]
                /\ UNCHANGED <<tabState, lastDetected, detectedRun>>
           ELSE IF m.type \in UrlTypes /\ m.url # NoUrl
           THEN IF t = NoTab
                THEN /\ slots' = [slots EXCEPT ![s] =
                                     Finish(m, RespError("No tab ID provided"))]
                     /\ UNCHANGED <<tabState, lastDetected, detectedRun>>
                ELSE IF ~isSalesforceDomain(m.url)
                THEN /\ slots' = [slots EXCEPT ![s] =
                                     Finish(m, RespError("Invalid Salesforce domain"))]
                     /\ Handled(t, Event(m.type, m.url))
                     /\ UNCHANGED tabState
                ELSE /\ tabState' = [tabState EXCEPT ![t] = Merge(@, m.url)]
                     /\ Handled(t, Event(m.type, m.url))
                     /\ IF m.type = "SETUP_LINK_CLICKED"
                        THEN slots' = [slots EXCEPT ![s] =
                                 [m EXCEPT !.pc = "open", !.openRes = "requested"]]
                        ELSE slots' = [slots EXCEPT ![s] =
                                 Finish(m, RespSuccess(FALSE))]
           ELSE IF m.type = "GET_TAB_STATE"
           THEN /\ slots' = [slots EXCEPT ![s] =
                       IF t = NoTab THEN Finish(m, RespError("No tab ID provided"))
                       ELSE Finish(m, RespState(tabState[t]))]
                /\ UNCHANGED <<tabState, lastDetected, detectedRun>>
           ELSE /\ slots' = [slots EXCEPT ![s] =
                                Finish(m, RespError("Unknown message type"))]
                /\ UNCHANGED <<tabState, lastDetected, detectedRun>>
        /\ UNCHANGED <<coordinator, tabs, panelEnabled, panel, panelTab, rendererVars, apartVars>>

\* background.js:172-239, handleMessage up to its first await
HandleBackground(s) ==
    LET m == slots[s]
        t == m.sender
    IN  /\ coordinator = "background"
        /\ m.pc = "sent"
        /\ IF m.type = "NULL"
           THEN /\ slots' = [slots EXCEPT ![s] = Finish(m, RespError("TypeError"))]
                /\ UNCHANGED <<tabState, lastDetected, detectedRun>>
           ELSE IF m.type = "SETUP_DETECTED"
           THEN IF t = NoTab
                THEN /\ slots' = [slots EXCEPT ![s] =
                                     Finish(m, RespError("No tab ID provided"))]
                     /\ UNCHANGED <<tabState, lastDetected, detectedRun>>
                ELSE /\ tabState' = [tabState EXCEPT ![t] = Merge(@, m.url)]
                     /\ Handled(t, Event(m.type, m.url))
                     /\ slots' = [slots EXCEPT ![s] =
                                 [m EXCEPT !.pc = "open", !.openRes = "requested"]]
           ELSE IF m.type = "GET_TAB_STATE"
           THEN /\ slots' = [slots EXCEPT ![s] =
                       IF t = NoTab THEN Finish(m, RespError("No tab ID provided"))
                       ELSE Finish(m, RespState(tabState[t]))]
                /\ UNCHANGED <<tabState, lastDetected, detectedRun>>
           ELSE IF m.type = "SETUP_ERROR"
           THEN /\ slots' = [slots EXCEPT ![s] = Finish(m, RespReceived)]
                /\ UNCHANGED <<tabState, lastDetected, detectedRun>>
           ELSE /\ slots' = [slots EXCEPT ![s] =
                                Finish(m, RespError("Unknown message type"))]
                /\ UNCHANGED <<tabState, lastDetected, detectedRun>>
        /\ UNCHANGED <<coordinator, tabs, panelEnabled, panel, panelTab, rendererVars, apartVars>>

\* the catch retrying on every error
CatchOpenSidePanel_AlwaysRetry(m, e) ==
    [m EXCEPT !.pc = "retryWait"]

\* the catch ending without an answer when the error is not a connection error
CatchOpenSidePanel_Swallow(m, e) ==
    IF e = ConnError
    THEN [m EXCEPT !.pc = "retryWait"]
    ELSE [m EXCEPT !.pc = "done"]

\* part_002:101-119, the catch of openSidePanel: a connection-class error
\* arms the one-shot retry timer, any other error is answered at once
CatchOpenSidePanel(m, e) ==
    IF e = ConnError
    THEN [m EXCEPT !.pc = "retryWait"]
    ELSE Finish(m, RespError(e))

\* host: chrome.sidePanel.open({tabId}) resolves; the surface starts loading
PanelOpened(t) ==
    /\ panel' = IF panel = "closed" THEN "opening" ELSE panel
    /\ panelTab' = t

CanOpen(t) == tabs[t] = "open" /\ panelEnabled[t]

\* part_002:89 resolves: openSidePanel goes on to its 100 ms delay
OpenResolvesPart002(s) ==
    LET m == slots[s] IN
    /\ coordinator = "part_002"
    /\ m.pc = "open"
    /\ CanOpen(m.sender)
    /\ PanelOpened(m.sender)
    /\ slots' = [slots EXCEPT ![s] = [m EXCEPT !.pc = "send", !.openRes = "ok"]]
    /\ UNCHANGED <<coordVars, rendererVars, apartVars>>

\* a rejected open that goes on to the send
OpenRejectsPart002_SendsAnyway(s, e) ==
    LET m == slots[s] IN
    /\ coordinator = "part_002"
    /\ m.pc = "open"
    /\ slots' = [slots EXCEPT ![s] = [m EXCEPT !.pc = "send", !.openRes = "failed"]]
    /\ UNCHANGED <<coordVars, panel, panelTab, rendererVars, apartVars>>

\* part_002:89 rejects: control passes to the catch
OpenRejectsPart002(s, e) ==
    LET m == slots[s] IN
    /\ coordinator = "part_002"
    /\ m.pc = "open"
    /\ slots' = [slots EXCEPT ![s] =
                    CatchOpenSidePanel([m EXCEPT !.openRes = "failed"], e)]
    /\ UNCHANGED <<coordVars, panel, panelTab, rendererVars, apartVars>>

\* part_002:92-100, the delay elapses and the first LOAD_SETUP is sent
FirstSend(s, outcome) ==
    LET m == slots[s]
        sent == [m EXCEPT !.sendLog = Append(@, outcome)]
    IN  /\ coordinator = "part_002"
        /\ m.pc = "send"
        /\ outcome \in SendOutcomes
        /\ RendererBecomes(AfterSend(outcome, m.url))
        /\ slots' = [slots EXCEPT ![s] =
                        IF outcome = "ok" THEN Finish(sent, RespSuccess(FALSE))
                        ELSE CatchOpenSidePanel(sent, outcome)]
        /\ UNCHANGED <<coordVars, panel, panelTab, apartVars>>

\* a retry that re-arms the timer when it fails
RetrySend_Again(s, outcome) ==
    LET m == slots[s]
        sent == [m EXCEPT !.sendLog = Append(@, outcome)]
    IN  /\ coordinator = "part_002"
        /\ m.pc = "retryWait"
        /\ Len(m.sendLog) < 3
        /\ outcome \in SendOutcomes
        /\ RendererBecomes(AfterSend(outcome, m.url))
        /\ slots' = [slots EXCEPT ![s] =
                        IF outcome = "ok" THEN Finish(sent, RespSuccess(TRUE))
                        ELSE sent]
        /\ UNCHANGED <<coordVars, panel, panelTab, apartVars>>

\* part_002:105-115, the 300 ms timer fires and LOAD_SETUP is sent again
RetrySend(s, outcome) ==
    LET m == slots[s]
        sent == [m EXCEPT !.sendLog = Append(@, outcome)]
    IN  /\ coordinator = "part_002"
        /\ m.pc = "retryWait"
        /\ outcome \in SendOutcomes
        /\ RendererBecomes(AfterSend(outcome, m.url))
        /\ slots' = [slots EXCEPT ![s] =
                        IF outcome = "ok" THEN Finish(sent, RespSuccess(TRUE))
                        ELSE Finish(sent, RespError(outcome))]
        /\ UNCHANGED <<coordVars, panel, panelTab, apartVars>>

\* background.js:203-212, sidePanel.open resolves: LOAD_SETUP is sent without
\* waiting for its outcome and the sender is acknowledged
OpenResolvesBackground(s, outcome) ==
    LET m == slots[s]
        sent == [m EXCEPT !.sendLog = Append(@, outcome), !.openRes = "ok"]
    IN  /\ coordinator = "background"
        /\ m.pc = "open"
        /\ CanOpen(m.sender)
        /\ outcome \in SendOutcomes
        /\ RendererBecomes(AfterSend(outcome, m.url))
        /\ PanelOpened(m.sender)
        /\ slots' = [slots EXCEPT ![s] = Finish(sent, RespSuccess(FALSE))]
        /\ UNCHANGED <<coordVars, apartVars>>

\* background.js:203 rejects: the catch at 235-238 answers with the error
OpenRejectsBackground(s, e) ==
    LET m == slots[s] IN
    /\ coordinator = "background"
    /\ m.pc = "open"
    /\ slots' = [slots EXCEPT ![s] =
                    Finish([m EXCEPT !.openRes = "failed"], RespError(e))]
    /\ UNCHANGED <<coordVars, panel, panelTab, rendererVars, apartVars>>

\* the page that sent the message receives the response
CallerReceives(s) ==
    /\ slots[s].pc = "done"
    /\ slots' = [slots EXCEPT ![s] = FreeSlot]
    /\ UNCHANGED <<coordVars, panel, panelTab, rendererVars, apartVars>>

\* background.js:141-164, chrome.tabs.onUpdated with changeInfo.url set
TabUpdated(t, url) ==
    /\ coordinator = "background"
    /\ tabs[t] = "open"
    /\ url # NoUrl
    /\ tabState' = [tabState EXCEPT ![t] =
           [present |-> TRUE,
            isSalesforceTab |-> IF isSalesforceUrl(url) THEN "true" ELSE "false",
            setupActive |-> FALSE,
            setupUrl |-> NoUrl,
            url |-> url]]
    /\ panelEnabled' = [panelEnabled EXCEPT ![t] = isSalesforceUrl(url)]
    /\ Handled(t, Event("navigated", url))
    /\ UNCHANGED <<coordinator, tabs, slots, panel, panelTab, rendererVars, apartVars>>

\* part_002:56-58 / background.js:167-169, chrome.tabs.onRemoved
TabRemoved(t) ==
    /\ tabs[t] = "open"
    /\ tabs' = [tabs EXCEPT ![t] = "removed"]
    /\ tabState' = [tabState EXCEPT ![t] = AbsentRec]
    /\ Handled(t, Event("removed", NoUrl))
    /\ UNCHANGED <<coordinator, panelEnabled, slots, panel, panelTab, rendererVars, apartVars>>


\* ------------------------------------------------------- panel and Renderer
\* host: sender.tab of a message sent by sidepanel.html.  It is absent when
\* the page runs in the side panel surface and is the hosting tab when the
\* page runs inside a tab; the listener reads it with sender.tab?.id.
PanelSenders == {NoTab} \cup (IF panelTab # NoTab /\ tabs[panelTab] = "open"
                              THEN {panelTab} ELSE {})

GetTabStateMessage(snd) == NewMessage("GET_TAB_STATE", NoUrl, snd)

\* sidepanel.js:407-437, 477-534: the surface finishes loading; initialize()
\* registers the message listener and calls getCurrentTabInfo()
PanelInit(snd) ==
    /\ panel = "opening"
    /\ slots[PanelSlot].pc = "free"
    /\ snd \in PanelSenders
    /\ panel' = "listening"
    /\ RendererBecomes(InitialRenderer)
    /\ slots' = [slots EXCEPT ![PanelSlot] = GetTabStateMessage(snd)]
    /\ UNCHANGED <<coordVars, panelTab, apartVars>>

\* host: the surface is closed (unload, sidepanel.js:436, 442-472); the
\* document and the Renderer's state are gone, and with them the promise of
\* a GET_TAB_STATE still in flight (handling it changes no Coordinator state)
PanelClosed ==
    /\ panel # "closed"
    /\ panel' = "closed"
    /\ panelTab' = NoTab
    /\ RendererBecomes(InitialRenderer)
    /\ slots' = [slots EXCEPT ![PanelSlot] = FreeSlot]
    /\ UNCHANGED <<coordVars, apartVars>>

\* sidepanel.js:577-582, the surface becomes visible again
handleVisibilityChange(snd) ==
    /\ panel = "listening"
    /\ slots[PanelSlot].pc = "free"
    /\ snd \in PanelSenders
    /\ slots' = [slots EXCEPT ![PanelSlot] = GetTabStateMessage(snd)]
    /\ UNCHANGED <<coordVars, panel, panelTab, rendererVars, apartVars>>

\* sidepanel.js:727-740 with a frame: the frame's src is set again
handleRefreshClickFrame ==
    /\ panel = "listening"
    /\ setupFrame # NoUrl
    /\ RendererBecomes([Renderer EXCEPT !.rstate = "loading"])
    /\ UNCHANGED <<coordVars, slots, panel, panelTab, apartVars>>

\* sidepanel.js:727-740 without a frame: getCurrentTabInfo()
handleRefreshClickNoFrame(snd) ==
    /\ panel = "listening"
    /\ setupFrame = NoUrl
    /\ slots[PanelSlot].pc = "free"
    /\ snd \in PanelSenders
    /\ slots' = [slots EXCEPT ![PanelSlot] = GetTabStateMessage(snd)]
    /\ UNCHANGED <<coordVars, panel, panelTab, rendererVars, apartVars>>

\* sidepanel.js:590-595, the GET_TAB_STATE response reaches the Renderer
RendererReceives ==
    /\ slots[PanelSlot].pc = "done"
    /\ panel = "listening"
    /\ RendererBecomes(getCurrentTabInfoThen(Renderer, slots[PanelSlot].resp))
    /\ slots' = [slots EXCEPT ![PanelSlot] = FreeSlot]
    /\ UNCHANGED <<coordVars, panel, panelTab, apartVars>>

\* sidepanel.js:820-827, the frame's load event (the host raises it after
\* every load of the frame, in-frame navigations included)
handleLoadSuccess ==
    /\ panel = "listening"
    /\ setupFrame # NoUrl
    /\ RendererBecomes([Renderer EXCEPT !.rstate = "loaded"])
    /\ UNCHANGED <<coordVars, slots, panel, panelTab, apartVars>>

\* sidepanel.js:832-844, the frame's error event
handleLoadError ==
    /\ panel = "listening"
    /\ setupFrame # NoUrl
    /\ RendererBecomes([Renderer EXCEPT !.rstate = "error"])
    /\ UNCHANGED <<coordVars, slots, panel, panelTab, apartVars>>

\* ------------------------------------------------------------ specification
Senders == Tabs \cup {NoTab}

Next ==
    \/ \E s \in Slots, ty \in UrlTypes, u \in MsgUrls, t \in Tabs :
           ExternalSend(s, ty, u, t)
    \/ \E s \in Slots, ty \in UrlTypes : ExternalSend(s, ty, UrlA, NoTab)
    \/ \E s \in Slots, ty \in PlainTypes, t \in Tabs :
           ExternalSend(s, ty, NoUrl, t)
    \/ \E s \in AllSlots : HandlePart002(s)
    \/ \E s \in AllSlots : HandleBackground(s)
    \/ \E s \in Slots : OpenResolvesPart002(s)
    \/ \E s \in Slots, e \in OpenErrors : OpenRejectsPart002(s, e)
    \/ \E s \in Slots, o \in {"ok"} \cup SendErrors : FirstSend(s, o)
    \/ \E s \in Slots, o \in {"ok"} \cup SendErrors : RetrySend(s, o)
    \/ \E s \in Slots, o \in {"ok"} \cup SendErrors : OpenResolvesBackground(s, o)
    \/ \E s \in Slots, e \in OpenErrors : OpenRejectsBackground(s, e)
    \/ \E s \in Slots : CallerReceives(s)
    \/ \E t \in Tabs, u \in NavUrls : TabUpdated(t, u)
    \/ \E t \in Tabs : TabRemoved(t)
    \/ \E t \in Senders : PanelInit(t)
    \/ PanelClosed
    \/ \E t \in Senders : handleVisibilityChange(t)
    \/ handleRefreshClickFrame
    \/ \E t \in Senders : handleRefreshClickNoFrame(t)
    \/ RendererReceives
    \/ handleLoadSuccess
    \/ handleLoadError

Spec == Init /\ [][Next]_vars


\* the host settles every promise, timers fire and the event loop runs every
\* pending handler: each started handler step is taken eventually
Progress(s) ==
    \/ HandlePart002(s)
    \/ HandleBackground(s)
    \/ OpenResolvesPart002(s)
    \/ \E e \in OpenErrors : OpenRejectsPart002(s, e)
    \/ \E o \in {"ok"} \cup SendErrors : FirstSend(s, o)
    \/ \E o \in {"ok"} \cup SendErrors : RetrySend(s, o)
    \/ \E o \in {"ok"} \cup SendErrors : OpenResolvesBackground(s, o)
    \/ \E e \in OpenErrors : OpenRejectsBackground(s, e)

FairSpec == Spec /\ \A s \in AllSlots : WF_vars(Progress(s))

\* ------------------------------------------------------------ RendererSpec
\* The Renderer alone, driven by the LOAD_SETUP commands that reach its
\* listener (chrome.runtime.onMessage delivers what any extension context
\* sends) and by the events of its frame.
CommandUrls == {UrlA, UrlB, UrlEvil, UrlEvilForce, NoUrl}

\* the panel has been opened for a tab and initialize() has run
RendererInit ==
    /\ coordinator = "part_002"
    /\ tabs = [t \in Tabs |-> "open"]
    /\ tabState = [t \in Tabs |-> AbsentRec]
    /\ panelEnabled = [t \in Tabs |-> TRUE]
    /\ slots = [s \in AllSlots |-> FreeSlot]
    /\ lastDetected = [t \in Tabs |-> NoUrl]
    /\ detectedRun = [t \in Tabs |-> 0]
    /\ panel = "listening"
    /\ panelTab \in Tabs
    /\ rstate = "initial"
    /\ setupFrame = NoUrl
    /\ attached = 0
    /\ lastLoad = NoLoad
    /\ replaced = NoUrl
    /\ page = ScriptStarted(FALSE)
    /\ probe = NoProbe
    /\ watch = NoWatches
    /\ frames = NoFrames
    /\ other = NoSurface

\* sidepanel.js:701-722, a LOAD_SETUP{url} reaches handleMessage
LoadSetupCommand(url) ==
    /\ panel = "listening"
    /\ RendererBecomes(handleMessage(Renderer, url))
    /\ lastLoad' = [url |-> url, reply |-> handleMessageResponse(url),
                    before |-> lastLoad.url]
    /\ replaced' = IF handleMessageResponse(url) = "success" THEN setupFrame
                   ELSE NoUrl
    /\ UNCHANGED <<coordVars, slots, panel, panelTab, page, probe, watch,
                   frames, other>>

RendererNext ==
    \/ \E u \in CommandUrls : LoadSetupCommand(u)
    \/ handleRefreshClickFrame
    \/ handleLoadSuccess
    \/ handleLoadError

RendererSpec == RendererInit /\ [][RendererNext]_vars

\* ------------------------------------------------------------ ObserverSpec
\* The content script (content.js:1-288) of one page of a monitored site,
\* driven by the page's events and by the outcomes the host gives its sends.
Invalidated == "Extension context invalidated"

\* host: outcomes of a chrome.runtime.sendMessage made by the page
PageSendOutcomes(P) ==
    IF P.contextValid THEN {"ok", ConnError, OtherError} ELSE {Invalidated}

\* history: a send is made; it is a late send when an earlier send has
\* failed with the invalidated condition
Attempted(P) ==
    [P EXCEPT !.lateSends = IF P.failedInvalidated THEN 1 ELSE @]

\* content.js:138-152
cleanupExtension(P) ==
    IF ~P.extensionActive THEN P
    ELSE [P EXCEPT !.extensionActive = FALSE, !.observing = FALSE,
                   !.loadListener = FALSE]

\* content.js:219-281 is called: document gets one more capture listener
\* (each call registers a new function object); counted up to MaxListeners
setupLinkInterception(P) ==
    [P EXCEPT !.clickListeners = Min(@ + 1, MaxListeners)]

\* content.js:97-130 up to its await, called with `retries` retries behind it
checkAndReportSetupPage(P, retries) ==
    IF P.setup
    THEN Attempted([P EXCEPT !.pending = retries,
                             !.repeats = IF P.reported THEN 1 ELSE @])
    ELSE setupLinkInterception(P)

\* one SETUP_DETECTED in flight at a time
CanCheck(P) == P.setup => P.pending = NoSend

ObserverUnchanged ==
    UNCHANGED <<coordVars, slots, panel, panelTab, rendererVars, lastLoad,
                replaced, probe, watch, frames, other>>

\* content.js:168-183: the document changes (Setup markers appear or go, or
\* the location changes) and the MutationObserver callback runs if connected
Mutation(isSetup, urlChanged) ==
    LET P == [page EXCEPT !.setup = isSetup,
                          !.reported = IF isSetup = page.setup /\ ~urlChanged
                                       THEN @ ELSE FALSE]
    IN
    /\ ~page.navigated
    /\ ~(isSetup /\ urlChanged)
    /\ IF page.observing /\ (isSetup \/ urlChanged)
       THEN CanCheck(P) /\ page' = checkAndReportSetupPage(P, 0)
       ELSE page' = P
    /\ ObserverUnchanged

\* content.js:193, the window's load event
WindowLoad ==
    LET P == [page EXCEPT !.loaded = TRUE] IN
    /\ ~page.navigated
    /\ ~page.loaded
    /\ IF page.loadListener
       THEN CanCheck(P) /\ page' = checkAndReportSetupPage(P, 0)
       ELSE page' = P
    /\ ObserverUnchanged

\* content.js:118, a retry timer fires
RetryTimerFires ==
    LET P == [page EXCEPT !.timers = Tail(@)] IN
    /\ ~page.navigated
    /\ page.timers # << >>
    /\ CanCheck(P)
    /\ page' = checkAndReportSetupPage(P, Head(page.timers))
    /\ ObserverUnchanged

\* content.js:106-122, the awaited SETUP_DETECTED send settles
DetectedSettles(outcome) ==
    LET P == [page EXCEPT !.pending = NoSend] IN
    /\ ~page.navigated
    /\ page.pending # NoSend
    /\ outcome \in PageSendOutcomes(page)
    /\ IF outcome = Invalidated
       THEN page' = cleanupExtension([P EXCEPT !.failedInvalidated = TRUE])
       ELSE IF outcome = ConnError
       THEN /\ Len(page.timers) < MaxTimers
            /\ page' = [P EXCEPT !.timers =
                            Append(@, Min(page.pending + 1, MaxChain))]
       ELSE IF outcome = "ok"
       THEN page' = [P EXCEPT !.reported = TRUE]
       ELSE page' = P
    /\ ObserverUnchanged

\* host: the extension is reloaded, updated or disabled
ContextInvalidated ==
    /\ ~page.navigated
    /\ page.contextValid
    /\ page' = [page EXCEPT !.contextValid = FALSE]
    /\ ObserverUnchanged

\* content.js:220-280: a click whose target lies inside an anchor whose href
\* is a Setup url.  Without a listener the default navigation proceeds.
\* Each installed listener prevents the default and sends
\* SETUP_LINK_CLICKED; in an invalidated context the call either rejects
\* later or throws at once into the catch of line 277.
ClickSetupLink(thrown) ==
    /\ ~page.navigated
    /\ page.clicks = 0
    /\ thrown \in (IF page.contextValid THEN {FALSE} ELSE BOOLEAN)
    /\ page' =
         IF page.clickListeners = 0
         THEN [page EXCEPT !.navigated = TRUE, !.lastClick = "default"]
         ELSE IF thrown
         THEN [Attempted(page) EXCEPT !.lastClick = "swallowed",
                                      !.failedInvalidated = TRUE]
         ELSE [Attempted(page) EXCEPT !.lastClick = "intercepted",
                                      !.clicks = page.clickListeners]
    /\ ObserverUnchanged

\* content.js:267-273, a SETUP_LINK_CLICKED send settles; a rejection
\* assigns window.location.href = href
ClickSettles(outcome) ==
    /\ ~page.navigated
    /\ page.clicks > 0
    /\ outcome \in PageSendOutcomes(page)
    /\ page' =
         IF outcome = "ok"
         THEN [page EXCEPT !.clicks = @ - 1]
         ELSE [page EXCEPT !.clicks = 0, !.navigated = TRUE,
                           !.failedInvalidated = @ \/ outcome = Invalidated]
    /\ ObserverUnchanged

ObserverInit ==
    /\ coordinator = "part_002"
    /\ tabs = [t \in Tabs |-> "open"]
    /\ tabState = [t \in Tabs |-> AbsentRec]
    /\ panelEnabled = [t \in Tabs |-> TRUE]
    /\ slots = [s \in AllSlots |-> FreeSlot]
    /\ lastDetected = [t \in Tabs |-> NoUrl]
    /\ detectedRun = [t \in Tabs |-> 0]
    /\ panel = "closed"
    /\ panelTab = NoTab
    /\ rstate = "initial"
    /\ setupFrame = NoUrl
    /\ attached = 0
    /\ lastLoad = NoLoad
    /\ replaced = NoUrl
    /\ page \in {ScriptStarted(b) : b \in BOOLEAN}
    /\ probe = NoProbe
    /\ watch = NoWatches
    /\ frames = NoFrames
    /\ other = NoSurface

ObserverNext ==
    \/ \E b \in BOOLEAN, c \in BOOLEAN : Mutation(b, c)
    \/ WindowLoad
    \/ RetryTimerFires
    \/ \E o \in {"ok", Invalidated} \cup SendErrors : DetectedSettles(o)
    \/ ContextInvalidated
    \/ \E b \in BOOLEAN : ClickSetupLink(b)
    \/ \E o \in {"ok", Invalidated} \cup SendErrors : ClickSettles(o)

ObserverSpec == ObserverInit /\ [][ObserverNext]_vars

\* ----------------------------------------------------------- EndToEndSpec
\* One page of a monitored site (content.js:1-288) in tab PageTab, the
\* Coordinator of part_002 and the Renderer in the side panel surface.  The
\* page reports its own location PageUrl; the anchors the user clicks have
\* the Setup url ClickHref.  The host delivers every message of the page and
\* every response, chrome.sidePanel.open resolves and the frame loads; a
\* LOAD_SETUP sent before the panel listens still fails with the connection
\* error, as in Spec.
PageTab == 1
PageUrl == UrlA
ClickHref == UrlB

EndToEndInit ==
    /\ coordinator = "part_002"
    /\ tabs = [t \in Tabs |-> "open"]
    /\ tabState = [t \in Tabs |-> AbsentRec]
    /\ panelEnabled = [t \in Tabs |-> TRUE]
    /\ slots = [s \in AllSlots |-> FreeSlot]
    /\ lastDetected = [t \in Tabs |-> NoUrl]
    /\ detectedRun = [t \in Tabs |-> 0]
    /\ panel = "closed"
    /\ panelTab = NoTab
    /\ rstate = "initial"
    /\ setupFrame = NoUrl
    /\ attached = 0
    /\ lastLoad = NoLoad
    /\ replaced = NoUrl
    /\ page \in {ScriptStarted(b) : b \in BOOLEAN}
    /\ probe = NoProbe
    /\ watch = NoWatches
    /\ frames = NoFrames
    /\ other = NoSurface

\* the page's messages that are in the Coordinator's hands
InHands(type) ==
    Cardinality({s \in Slots : slots[s].pc # "free" /\ slots[s].type = type})

\* content.js:106-109, chrome.runtime.sendMessage({type:'SETUP_DETECTED'})
\* of the page reaches the Coordinator's listener with sender.tab = its tab
PageSendsDetected(s) ==
    /\ ~page.navigated
    /\ slots[s].pc = "free"
    /\ page.pending # NoSend
    /\ InHands("SETUP_DETECTED") = 0
    /\ slots' = [slots EXCEPT ![s] =
                    NewMessage("SETUP_DETECTED",
                               IF page.at = "href" THEN ClickHref ELSE PageUrl,
                               PageTab)]
    /\ UNCHANGED <<coordVars, panel, panelTab, rendererVars, apartVars>>

\* content.js:267-270, chrome.runtime.sendMessage({type:'SETUP_LINK_CLICKED'})
\* of a click listener reaches the Coordinator's listener
PageSendsClicked(s) ==
    /\ ~page.navigated
    /\ slots[s].pc = "free"
    /\ page.clicks > InHands("SETUP_LINK_CLICKED")
    /\ slots' = [slots EXCEPT ![s] =
                    NewMessage("SETUP_LINK_CLICKED", ClickHref, PageTab)]
    /\ UNCHANGED <<coordVars, panel, panelTab, rendererVars, apartVars>>

\* the response reaches the page and the promise of the send resolves
\* (content.js:110 for SETUP_DETECTED; the click send has no then-handler)
PageReceives(s) ==
    /\ slots[s].pc = "done"
    /\ slots' = [slots EXCEPT ![s] = FreeSlot]
    /\ page' = IF slots[s].type = "SETUP_DETECTED"
               THEN [page EXCEPT !.pending = NoSend, !.reported = TRUE]
               ELSE [page EXCEPT !.clicks = @ - 1]
    /\ UNCHANGED <<coordVars, panel, panelTab, rendererVars, lastLoad, replaced,
                   probe, watch, frames, other>>

\* the user clicks an anchor with href ClickHref after the page's
\* SETUP_DETECTED has been handled
UserClicksSetupLink ==
    /\ tabState[PageTab].setupActive
    /\ InHands("SETUP_LINK_CLICKED") = 0
    /\ ClickSetupLink(FALSE)

\* manifest.json:24-35, after a click that was not intercepted the tab loads
\* the document at ClickHref and the content script starts in it; the
\* responses to the messages of the document that was left are dropped
DocumentLoads(isSetup) ==
    /\ page.navigated
    /\ \A s \in Slots : slots[s].pc = "free"
    /\ page' = [ScriptStarted(isSetup) EXCEPT !.at = "href",
                                              !.lastClick = page.lastClick]
    /\ UNCHANGED <<coordVars, slots, panel, panelTab, rendererVars, lastLoad,
                   replaced, probe, watch, frames, other>>

EndToEndNext ==
    \/ \E b \in BOOLEAN, c \in BOOLEAN : Mutation(b, c)
    \/ WindowLoad
    \/ UserClicksSetupLink
    \/ \E b \in BOOLEAN : DocumentLoads(b)
    \/ \E s \in Slots : PageSendsDetected(s)
    \/ \E s \in Slots : PageSendsClicked(s)
    \/ \E s \in AllSlots : HandlePart002(s)
    \/ \E s \in Slots : OpenResolvesPart002(s)
    \/ \E s \in Slots, o \in {"ok", ConnError} : FirstSend(s, o)
    \/ \E s \in Slots, o \in {"ok", ConnError} : RetrySend(s, o)
    \/ \E s \in Slots : PageReceives(s)
    \/ PanelInit(NoTab)
    \/ RendererReceives
    \/ handleLoadSuccess

EndToEndSpec == EndToEndInit /\ [][EndToEndNext]_vars

\* fair scheduling: the host delivers messages and responses, settles
\* promises, fires timers, loads the panel surface and raises the frame's
\* load event.  A message of the page is delivered whatever other messages
\* are under way (strong fairness: the slots bound the messages in the
\* Coordinator's hands, not the host's delivery).
EndToEndFair ==
    /\ EndToEndSpec
    /\ \A s \in Slots : SF_vars(PageSendsDetected(s))
    /\ \A s \in Slots : SF_vars(PageSendsClicked(s))
    /\ \A s \in AllSlots : WF_vars(Progress(s))
    /\ \A s \in Slots : WF_vars(PageReceives(s))
    /\ WF_vars(\E b \in BOOLEAN : DocumentLoads(b))
    /\ WF_vars(PanelInit(NoTab))
    /\ WF_vars(RendererReceives)
    /\ WF_vars(handleLoadSuccess)

\* ---------------------------------------------------------- ClassifierSpec
\* The site and Setup classifiers of the three components applied to one
\* url: the Observer's (content.js:7-130, or its variant part_004), the
\* Coordinator's (part_002:23-30) and the Renderer's (sidepanel.js:624-634).
ObserverVariants == {"content", "part_004"}

\* hostnames and paths the probed urls are built from
ProbeHosts ==
    { <<"myorg", ".", "my", ".", "sales", "force", ".", "com">>,
      <<"myorg", ".", "lightning", ".", "force", ".", "com">>,
      <<"x", ".", "visual", "force", ".", "com">>,
      <<"x", ".", "sales", "force", "-", "setup", ".", "com">>,
      <<"x", ".", "lightning", ".", "com">>,
      <<"evil", "sales", "force", ".", "com">>,
      <<"evil", ".", "example", ".", "com">> }

ProbePaths ==
    { <<"/", "lightning", "/", "setup", "/", "Users", "/", "home">>,
      <<"/", "setup", "/", "a">>,
      <<"/", "_ui", "/", "common", "/", "setup", "/", "Setup">>,
      <<"/", "home">> }

\* strings that new URL() rejects: a relative reference, the empty string,
\* a scheme without a host
MalformedUrls == {UrlMalformed, NoUrl, <<"https://">>}

ProbeUrls ==
    {<<"https://">> \o h \o q : h \in ProbeHosts, q \in ProbePaths}
        \cup MalformedUrls

\* String.prototype.toLowerCase on a token
LowerToken(t) ==
    IF t = "Setup" THEN "setup" ELSE IF t = "Users" THEN "users" ELSE t

toLowerCase(str) == [i \in 1..Len(str) |-> LowerToken(str[i])]

\* position of the first "?" at or after i, Len(u)+1 if none
RECURSIVE QueryStart(_, _)
QueryStart(u, i) ==
    IF i > Len(u) THEN i
    ELSE IF u[i] = "?" THEN i
    ELSE QueryStart(u, i + 1)

\* new URL(url).pathname of a url that parses: "/" when the url has no path
Pathname(u) ==
    LET from == HostEnd(u, 2)
        q == SubSeq(u, from, QueryStart(u, from) - 1)
    IN  IF q = << >> THEN <<"/">> ELSE q

\* try { ... new URL(url) ...; return v } catch (e) { return false } with
\* the exception dropped
TryCatch_Rethrows(parsed, v) ==
    IF parsed.ok THEN (IF v THEN "true" ELSE "false") ELSE "throws"

\* try { ... new URL(url) ...; return v } catch (e) { return false }: what
\* the call produces, "true", "false" or "throws"
TryCatch(parsed, v) ==
    IF parsed.ok THEN (IF v THEN "true" ELSE "false") ELSE "false"

\* content.js:7-12, SALESFORCE_DOMAINS in insertion order; every value is
\* `true`, which has no setupPatterns
ContentDomains ==
    << [key |-> <<".", "sales", "force", ".", "com">>,
        configured |-> FALSE, setupPatterns |-> {}],
       [key |-> <<".", "force", ".", "com">>,
        configured |-> FALSE, setupPatterns |-> {}],
       [key |-> <<".", "lightning", ".", "force", ".", "com">>,
        configured |-> FALSE, setupPatterns |-> {}],
       [key |-> <<".", "visual", "force", ".", "com">>,
        configured |-> FALSE, setupPatterns |-> {}] >>

\* part_004:7-34, SALESFORCE_DOMAINS in insertion order
Part004Domains ==
    << [key |-> <<"sales", "force", ".", "com">>, configured |-> TRUE,
        setupPatterns |-> { <<"/", "lightning", "/", "setup">>,
                            <<"/", "_ui", "/", "common", "/", "setup", "/", "Setup">> }],
       [key |-> <<"force", ".", "com">>, configured |-> TRUE,
        setupPatterns |-> { <<"/", "setup">> }],
       [key |-> <<"sales", "force", "-", "setup", ".", "com">>, configured |-> TRUE,
        setupPatterns |-> { <<"*">> }],
       [key |-> <<"visual", "force", ".", "com">>, configured |-> TRUE,
        setupPatterns |-> { <<"/", "apex", "/", "setup">> }],
       [key |-> <<"lightning", ".", "com">>, configured |-> TRUE,
        setupPatterns |-> { <<"/", "setup">> }],
       [key |-> <<"sfdcstatic", ".", "com">>, configured |-> TRUE,
        setupPatterns |-> {}] >>

\* content.js:27-31, SETUP_PATTERNS
SETUP_PATTERNS ==
    { <<"/", "lightning", "/", "setup", "/">>,
      <<"/", "setup", "/">>,
      <<"/", "_ui", "/", "common", "/", "setup", "/">> }

ObserverConfig(variant) ==
    IF variant = "content" THEN ContentDomains ELSE Part004Domains

\* content.js:38-45 (keys with a leading dot, endsWith(key)) and
\* part_004:49-59 (keys without, endsWith('.' + key) or equality)
observerIsSalesforceDomain(variant, url) ==
    LET parsed == ParseURL(url)
        cfg == ObserverConfig(variant)
    IN  TryCatch(parsed,
            \E i \in 1..Len(cfg) :
                IF variant = "content"
                THEN EndsWith(parsed.hostname, cfg[i].key)
                ELSE \/ EndsWith(parsed.hostname, <<".">> \o cfg[i].key)
                     \/ parsed.hostname = cfg[i].key)

\* part_002:23-30
coordinatorIsSalesforceDomain(url) ==
    TryCatch(ParseURL(url), isSalesforceDomain(url))

\* sidepanel.js:624-634
rendererValidateSalesforceDomain(url) ==
    TryCatch(ParseURL(url), validateSalesforceDomain(url))

\* the entries of the configuration whose test at content.js:65 /
\* part_004:79 the hostname passes
MatchingEntries(cfg, hostname) ==
    {i \in 1..Len(cfg) :
        \/ EndsWith(hostname, <<".">> \o cfg[i].key)
        \/ hostname = cfg[i].key}

\* content.js:52-78 / part_004:66-92, isSetupPage: the first matching entry
\* decides; reading setupPatterns of an entry that has none throws inside
\* the try and the catch returns false
isSetupPage(variant, url) ==
    LET parsed == ParseURL(url)
        cfg == ObserverConfig(variant)
        m == MatchingEntries(cfg, parsed.hostname)
        first == CHOOSE i \in m : \A j \in m : i <= j
        pathname == toLowerCase(Pathname(url))
    IN  IF ~parsed.ok THEN FALSE
        ELSE IF EndsWith(parsed.hostname,
                         <<"sales", "force", "-", "setup", ".", "com">>)
        THEN TRUE
        ELSE IF m = {} THEN FALSE
        ELSE IF ~cfg[first].configured THEN FALSE
        ELSE \E pat \in cfg[first].setupPatterns :
                 pat = <<"*">> \/ Includes(pathname, toLowerCase(pat))

\* content.js:99-101, isSetupPageNow; markers is checkForSetupMenu()
isSetupPageNow(variant, url, markers) ==
    /\ observerIsSalesforceDomain(variant, url) = "true"
    /\ (isSetupPage(variant, url) \/ markers)

ClassifierInit ==
    /\ coordinator = "part_002"
    /\ tabs = [t \in Tabs |-> "open"]
    /\ tabState = [t \in Tabs |-> AbsentRec]
    /\ panelEnabled = [t \in Tabs |-> TRUE]
    /\ slots = [s \in AllSlots |-> FreeSlot]
    /\ lastDetected = [t \in Tabs |-> NoUrl]
    /\ detectedRun = [t \in Tabs |-> 0]
    /\ panel = "closed"
    /\ panelTab = NoTab
    /\ rstate = "initial"
    /\ setupFrame = NoUrl
    /\ attached = 0
    /\ lastLoad = NoLoad
    /\ replaced = NoUrl
    /\ page = ScriptStarted(FALSE)
    /\ \E v \in ObserverVariants, u \in ProbeUrls, b \in BOOLEAN :
           probe = [NoProbe EXCEPT !.variant = v, !.url = u, !.markers = b]
    /\ watch = NoWatches
    /\ frames = NoFrames
    /\ other = NoSurface

ClassifierUnchanged ==
    UNCHANGED <<coordVars, slots, panel, panelTab, rendererVars, lastLoad,
                replaced, page, watch, frames, other>>

\* the three components classify the site of the url
ClassifySite ==
    /\ probe.observerSite = "unset"
    /\ probe' = [probe EXCEPT
           !.observerSite = observerIsSalesforceDomain(probe.variant, probe.url),
           !.coordinatorSite = coordinatorIsSalesforceDomain(probe.url),
           !.rendererSite = rendererValidateSalesforceDomain(probe.url)]
    /\ ClassifierUnchanged

\* the Observer classifies the page as Setup or not (content.js:99-101)
ClassifySetup ==
    /\ probe.setupPage = "unset"
    /\ probe' = [probe EXCEPT
           !.setupPage = IF isSetupPage(probe.variant, probe.url)
                         THEN "true" ELSE "false",
           !.setupNow = IF isSetupPageNow(probe.variant, probe.url, probe.markers)
                        THEN "true" ELSE "false"]
    /\ ClassifierUnchanged

ClassifierNext ==
    \/ ClassifySite
    \/ ClassifySetup

ClassifierSpec == ClassifierInit /\ [][ClassifierNext]_vars

\* --------------------------------------------------------------- WatchSpec
\* The click-watches of one page whose click listener is installed
\* (content.js:219-281): a click on a Setup control that is not inside an
\* anchor starts a MutationObserver that waits for the location to become a
\* Setup url, and a 3 s timer that disconnects it.
Live(W) == W.connected \/ W.timer \/ W.inFlight

\* content.js:240-250, the callback of a connected setupObserver without
\* its disconnect()
watchCallback_NoDisconnect(W, isSetup, thrown) ==
    IF ~isSetup THEN W
    ELSE [W EXCEPT !.inFlight = ~thrown,
                   !.sends = Min(@ + 1, 2),
                   !.lateSends = IF W.timedOut THEN 1 ELSE @]

\* content.js:240-250, the callback of a connected setupObserver;
\* isSetup is isSetupUrl(window.location.href), thrown is whether
\* chrome.runtime.sendMessage throws at once (after the disconnect)
watchCallback(W, isSetup, thrown) ==
    IF ~isSetup THEN W
    ELSE [W EXCEPT !.connected = FALSE,
                   !.inFlight = ~thrown,
                   !.sends = Min(@ + 1, 2),
                   !.lateSends = IF W.timedOut THEN 1 ELSE @]

WatchInit ==
    /\ coordinator = "part_002"
    /\ tabs = [t \in Tabs |-> "open"]
    /\ tabState = [t \in Tabs |-> AbsentRec]
    /\ panelEnabled = [t \in Tabs |-> TRUE]
    /\ slots = [s \in AllSlots |-> FreeSlot]
    /\ lastDetected = [t \in Tabs |-> NoUrl]
    /\ detectedRun = [t \in Tabs |-> 0]
    /\ panel = "closed"
    /\ panelTab = NoTab
    /\ rstate = "initial"
    /\ setupFrame = NoUrl
    /\ attached = 0
    /\ lastLoad = NoLoad
    /\ replaced = NoUrl
    /\ page = ScriptStarted(FALSE)
    /\ probe = NoProbe
    /\ watch \in {[NoWatches EXCEPT !.setupUrl = b] : b \in BOOLEAN}
    /\ frames = NoFrames
    /\ other = NoSurface

WatchUnchanged ==
    UNCHANGED <<coordVars, slots, panel, panelTab, rendererVars, lastLoad,
                replaced, page, probe, frames, other>>

\* content.js:234-257, the user clicks a Setup control that is not inside an
\* anchor: a setupObserver is created and observes, its timer is armed.
\* (i names the new watch; a watch that is over leaves no trace.)
ClickSetupControl(i) ==
    /\ ~Live(watch.w[i])
    /\ watch' = [watch EXCEPT !.w[i] =
                    [NoWatch EXCEPT !.started = TRUE, !.connected = TRUE,
                                    !.timer = TRUE]]
    /\ WatchUnchanged

\* the page's script changes the location (history.pushState) without a
\* DOM mutation yet
LocationChanges(isSetup) ==
    /\ watch.setupUrl # isSetup
    /\ watch' = [watch EXCEPT !.setupUrl = isSetup]
    /\ WatchUnchanged

\* the document changes: the callback of every connected setupObserver
\* runs; in an invalidated context the send throws at once or rejects later
DomMutation(thrown) ==
    /\ \E i \in Watches : watch.w[i].connected
    /\ thrown \in (IF watch.contextValid THEN {FALSE} ELSE BOOLEAN)
    /\ watch' = [watch EXCEPT !.w = [i \in Watches |->
                    IF watch.w[i].connected
                    THEN watchCallback(watch.w[i], watch.setupUrl, thrown)
                    ELSE watch.w[i]]]
    /\ WatchUnchanged

\* host: the extension is reloaded, updated or disabled
WatchContextInvalidated ==
    /\ watch.contextValid
    /\ watch' = [watch EXCEPT !.contextValid = FALSE]
    /\ WatchUnchanged

\* content.js:256, the 3 s timer fires: setupObserver.disconnect()
WatchTimeout(i) ==
    /\ watch.w[i].timer
    /\ watch' = [watch EXCEPT !.w[i] =
                    [@ EXCEPT !.timer = FALSE, !.connected = FALSE,
                              !.timedOut = TRUE]]
    /\ WatchUnchanged

\* content.js:247-249, the send of a watch settles: history.back() when it
\* resolved (the entry gone back to is a Setup url or not), nothing when it
\* was rejected
WatchSendSettles(i, ok, backIsSetup) ==
    /\ watch.w[i].inFlight
    /\ ok => watch.contextValid
    /\ ~ok => backIsSetup = watch.setupUrl
    /\ watch' = [watch EXCEPT !.w[i].inFlight = FALSE,
                              !.setupUrl = IF ok THEN backIsSetup ELSE @]
    /\ WatchUnchanged

WatchNext ==
    \/ \E i \in Watches : ClickSetupControl(i)
    \/ \E b \in BOOLEAN : LocationChanges(b)
    \/ \E b \in BOOLEAN : DomMutation(b)
    \/ WatchContextInvalidated
    \/ \E i \in Watches : WatchTimeout(i)
    \/ \E i \in Watches, ok \in BOOLEAN, b \in BOOLEAN : WatchSendSettles(i, ok, b)

WatchSpec == WatchInit /\ [][WatchNext]_vars

\* timers fire
WatchFair == WatchSpec /\ \A i \in Watches : WF_vars(WatchTimeout(i))

\* ---------------------------------------------------------- VisibilitySpec
\* The panel after its start-up (the request of initialize() has been
\* answered), for a tab whose record the Coordinator holds or not: the
\* surface is hidden and shown again, LOAD_SETUP commands arrive and the
\* frame raises its events.  Every GET_TAB_STATE here is the re-query of
\* handleVisibilityChange (sidepanel.js:577-582).
RecordedUrls == {UrlA, UrlB}

VisibilityInit ==
    /\ coordinator \in {"background", "part_002"}
    /\ tabs = [t \in Tabs |-> "open"]
    /\ tabState \in [Tabs -> {AbsentRec} \cup {Merge(AbsentRec, u) : u \in RecordedUrls}]
    /\ panelEnabled = [t \in Tabs |-> TRUE]
    /\ slots = [s \in AllSlots |-> FreeSlot]
    /\ lastDetected = [t \in Tabs |-> NoUrl]
    /\ detectedRun = [t \in Tabs |-> 0]
    /\ panel = "listening"
    /\ panelTab \in Tabs
    /\ rstate = "initial"
    /\ setupFrame = NoUrl
    /\ attached = 0
    /\ lastLoad = NoLoad
    /\ replaced = NoUrl
    /\ page = ScriptStarted(FALSE)
    /\ probe = NoProbe
    /\ watch = NoWatches
    /\ frames = NoFrames
    /\ other = NoSurface

VisibilityNext ==
    \/ \E t \in Senders : handleVisibilityChange(t)
    \/ HandlePart002(PanelSlot)
    \/ HandleBackground(PanelSlot)
    \/ RendererReceives
    \/ \E u \in RecordedUrls : LoadSetupCommand(u)
    \/ handleLoadSuccess
    \/ handleLoadError

VisibilitySpec == VisibilityInit /\ [][VisibilityNext]_vars

\* --------------------------------------------------------------- FrameSpec
\* The Renderer of a started panel with its iframe elements told apart: the
\* LOAD_SETUP commands that reach its listener, the refresh control and the
\* retry button, the re-query of the tab state, and the load and error
\* events the host raises on the elements.  An element that is out of the
\* document, has no listener and is not this.setupFrame is unreachable; its
\* place is taken by the next element document.createElement returns.
Dead(F, i) == i # F.cur /\ ~F.f[i].inDoc /\ ~F.f[i].listening

NewFrameId(F) ==
    CHOOSE i \in FrameIds :
        Dead(F, i) /\ \A j \in FrameIds : Dead(F, j) => i <= j

\* createSecureFrame that leaves its listeners on the frame it removes
createSecureFrameFrames_KeepsListeners(F, setupUrl) ==
    IF setupUrl = NoUrl THEN F
    ELSE LET i == NewFrameId(F)
             G == IF F.cur = 0 THEN F.f
                  ELSE [F.f EXCEPT ![F.cur].inDoc = FALSE]
         IN  [cur |-> i,
              f |-> [G EXCEPT ![i] = [src |-> setupUrl, inDoc |-> TRUE,
                                      listening |-> TRUE,
                                      loadRaised |-> FALSE,
                                      reloaded |-> FALSE, late |-> FALSE]]]

\* sidepanel.js:639-696 on the elements: a missing url throws before any
\* element is touched (645-647); otherwise the listeners are removed from
\* the existing frame and it is taken out of the document (650-660), and a
\* new element gets the listeners and the src and is appended (674-688)
createSecureFrameFrames(F, setupUrl) ==
    IF setupUrl = NoUrl THEN F
    ELSE LET i == NewFrameId(F)
             G == IF F.cur = 0 THEN F.f
                  ELSE [F.f EXCEPT ![F.cur].listening = FALSE,
                                   ![F.cur].inDoc = FALSE]
         IN  [cur |-> i,
              f |-> [G EXCEPT ![i] = [src |-> setupUrl, inDoc |-> TRUE,
                                      listening |-> TRUE,
                                      loadRaised |-> FALSE,
                                      reloaded |-> FALSE, late |-> FALSE]]]

\* sidepanel.js:705-712 on the elements
handleMessageFrames(F, url) ==
    IF url # NoUrl /\ validateSalesforceDomain(url)
    THEN createSecureFrameFrames(F, url)
    ELSE F

\* sidepanel.js:590-595 on the elements
getCurrentTabInfoThenFrames(F, resp) ==
    IF resp.kind = "state" /\ resp.state.present /\ resp.state.setupUrl # NoUrl
    THEN createSecureFrameFrames(F, resp.state.setupUrl)
    ELSE F

\* a refresh that builds a new frame for the same url
handleRefreshClickFrames_Recreates(F) ==
    createSecureFrameFrames(F, F.f[F.cur].src)

\* sidepanel.js:729-731 / 862-864 on the elements: the src of the existing
\* frame is assigned again, which starts a new load of that element
handleRefreshClickFrames(F) ==
    [F EXCEPT !.f[F.cur].loadRaised = FALSE, !.f[F.cur].reloaded = TRUE]

FrameInit ==
    /\ coordinator \in {"background", "part_002"}
    /\ tabs = [t \in Tabs |-> "open"]
    /\ tabState \in [Tabs -> {AbsentRec} \cup {Merge(AbsentRec, u) : u \in RecordedUrls}]
    /\ panelEnabled = [t \in Tabs |-> TRUE]
    /\ slots = [s \in AllSlots |-> FreeSlot]
    /\ lastDetected = [t \in Tabs |-> NoUrl]
    /\ detectedRun = [t \in Tabs |-> 0]
    /\ panel = "listening"
    /\ panelTab \in Tabs
    /\ rstate = "initial"
    /\ setupFrame = NoUrl
    /\ attached = 0
    /\ lastLoad = NoLoad
    /\ replaced = NoUrl
    /\ page = ScriptStarted(FALSE)
    /\ probe = NoProbe
    /\ watch = NoWatches
    /\ frames = NoFrames
    /\ other = NoSurface

FrameUnchanged ==
    UNCHANGED <<coordVars, panel, panelTab, lastLoad, replaced, page, probe,
                watch, other>>

\* sidepanel.js:701-722, a LOAD_SETUP{url} reaches handleMessage
FrameLoadSetup(url) ==
    /\ panel = "listening"
    /\ \E i \in FrameIds : Dead(frames, i)
    /\ RendererBecomes(handleMessage(Renderer, url))
    /\ frames' = handleMessageFrames(frames, url)
    /\ UNCHANGED slots
    /\ FrameUnchanged

\* sidepanel.js:727-740, the refresh control is clicked: with a frame its
\* src is set again, without one getCurrentTabInfo() sends GET_TAB_STATE
handleRefreshClick(snd) ==
    /\ panel = "listening"
    /\ IF frames.cur # 0
       THEN /\ RendererBecomes([Renderer EXCEPT !.rstate = "loading"])
            /\ frames' = handleRefreshClickFrames(frames)
            /\ UNCHANGED slots
       ELSE /\ slots[PanelSlot].pc = "free"
            /\ snd \in PanelSenders
            /\ slots' = [slots EXCEPT ![PanelSlot] = GetTabStateMessage(snd)]
            /\ UNCHANGED <<rendererVars, frames>>
    /\ FrameUnchanged

\* sidepanel.js:849-875, the retry button of the error display is clicked;
\* updateUI shows the error display in display state error only (764-791)
\* and its click listener (861-869) has the body of handleRefreshClick
RetryClick(snd) ==
    /\ rstate = "error"
    /\ handleRefreshClick(snd)

\* sidepanel.js:590-595, the GET_TAB_STATE response reaches the Renderer
FrameReceives ==
    /\ slots[PanelSlot].pc = "done"
    /\ panel = "listening"
    /\ \E i \in FrameIds : Dead(frames, i)
    /\ RendererBecomes(getCurrentTabInfoThen(Renderer, slots[PanelSlot].resp))
    /\ frames' = getCurrentTabInfoThenFrames(frames, slots[PanelSlot].resp)
    /\ slots' = [slots EXCEPT ![PanelSlot] = FreeSlot]
    /\ FrameUnchanged

\* host: the load event is raised on element i (for an element that was
\* removed, the event was queued before the removal); sidepanel.js:820-827
\* runs if handleLoadSuccess is registered on the element
FrameLoad(i) ==
    /\ panel = "listening"
    /\ frames.f[i].src # NoUrl
    /\ frames' = [frames EXCEPT !.f[i].loadRaised = TRUE,
                                !.f[i].late = @ \/ ~frames.f[i].inDoc]
    /\ rstate' = IF frames.f[i].listening THEN "loaded" ELSE rstate
    /\ UNCHANGED <<setupFrame, attached, slots>>
    /\ FrameUnchanged

\* host: the error event is raised on element i; sidepanel.js:832-844 runs
\* if handleLoadError is registered on the element
FrameError(i) ==
    /\ panel = "listening"
    /\ frames.f[i].src # NoUrl
    /\ frames' = [frames EXCEPT !.f[i].late = @ \/ ~frames.f[i].inDoc]
    /\ rstate' = IF frames.f[i].listening THEN "error" ELSE rstate
    /\ UNCHANGED <<setupFrame, attached, slots>>
    /\ FrameUnchanged

FrameNext ==
    \/ \E u \in CommandUrls : FrameLoadSetup(u)
    \/ \E t \in Senders : handleRefreshClick(t)
    \/ \E t \in Senders : RetryClick(t)
    \/ HandlePart002(PanelSlot)
    \/ HandleBackground(PanelSlot)
    \/ FrameReceives
    \/ \E i \in FrameIds : FrameLoad(i)
    \/ \E i \in FrameIds : FrameError(i)

FrameSpec == FrameInit /\ [][FrameNext]_vars

\* ----------------------------------------------------------- TwoClicksSpec
\* Two SETUP_LINK_CLICKED messages of one tab in the hands of the Coordinator
\* of part_002 at the same time: the first carries UrlA, the second, handled
\* after it, UrlB.  sidePanel.open resolves, and a LOAD_SETUP fails only with
\* the connection error, while the panel does not listen yet.  The opens
\* resolve and the timers fire in the order in which they were started: the
\* 100 ms delay of the first click ends before that of the second, and so
\* do the 300 ms retry timers; a 300 ms retry timer of the first click and
\* the open and the 100 ms delay of the second are not ordered.
FirstClick == 1
SecondClick == 2
ClickSlots == {FirstClick, SecondClick}

TwoClicksInit ==
    /\ coordinator = "part_002"
    /\ tabs = [t \in Tabs |-> "open"]
    /\ tabState = [t \in Tabs |-> AbsentRec]
    /\ panelEnabled = [t \in Tabs |-> TRUE]
    /\ slots = [s \in {PanelSlot} \cup ClickSlots |-> FreeSlot]
    /\ lastDetected = [t \in Tabs |-> NoUrl]
    /\ detectedRun = [t \in Tabs |-> 0]
    /\ panel = "closed"
    /\ panelTab = NoTab
    /\ rstate = "initial"
    /\ setupFrame = NoUrl
    /\ attached = 0
    /\ lastLoad = NoLoad
    /\ replaced = NoUrl
    /\ page = ScriptStarted(FALSE)
    /\ probe = NoProbe
    /\ watch = NoWatches
    /\ frames = NoFrames
    /\ other = NoSurface

\* content.js:267-270, the page's click listener sends the first click
SendFirstClick ==
    /\ ~tabState[PageTab].present
    /\ ExternalSend(FirstClick, "SETUP_LINK_CLICKED", UrlA, PageTab)

\* content.js:267-270, the second click is sent once the listener of
\* part_002 has returned from the first
SendSecondClick ==
    /\ slots[FirstClick].pc \notin {"free", "sent"}
    /\ tabState[PageTab].setupUrl = UrlA
    /\ ExternalSend(SecondClick, "SETUP_LINK_CLICKED", UrlB, PageTab)

\* started earlier and waiting for the same kind of event
Ahead(s, pc) == s = SecondClick /\ slots[FirstClick].pc = pc

TwoClicksNext ==
    \/ SendFirstClick
    \/ SendSecondClick
    \/ \E s \in ClickSlots \cup {PanelSlot} : HandlePart002(s)
    \/ \E s \in ClickSlots : ~Ahead(s, "open") /\ OpenResolvesPart002(s)
    \/ \E s \in ClickSlots, o \in {"ok", ConnError} :
           ~Ahead(s, "send") /\ FirstSend(s, o)
    \/ \E s \in ClickSlots, o \in {"ok", ConnError} :
           ~Ahead(s, "retryWait") /\ RetrySend(s, o)
    \/ PanelInit(NoTab)
    \/ RendererReceives
    \/ handleLoadSuccess

TwoClicksSpec == TwoClicksInit /\ [][TwoClicksNext]_vars

\* ------------------------------------------------------------- WindowsSpec
\* The Coordinator of part_002 with two panel surfaces: the one the model
\* opens for the tab that sends SETUP_LINK_CLICKED, and one that is open in
\* another window, for a tab of that window which sends nothing here.  Both
\* run sidepanel.js and both have registered handleMessage with
\* chrome.runtime.onMessage (sidepanel.js:521).  chrome.runtime.sendMessage
\* has no addressee (part_002:95-98): the host calls the onMessage listeners
\* of every extension page, and rejects with the connection error when there
\* is none.
OtherRenderer ==
    [rstate |-> other.rstate, setupFrame |-> other.setupFrame,
     attached |-> other.attached]

Surface(R) ==
    [listening |-> TRUE, rstate |-> R.rstate, setupFrame |-> R.setupFrame,
     attached |-> R.attached]

WindowsInit ==
    /\ coordinator = "part_002"
    /\ tabs = [t \in Tabs |-> "open"]
    /\ tabState = [t \in Tabs |-> AbsentRec]
    /\ panelEnabled = [t \in Tabs |-> TRUE]
    /\ slots = [s \in AllSlots |-> FreeSlot]
    /\ lastDetected = [t \in Tabs |-> NoUrl]
    /\ detectedRun = [t \in Tabs |-> 0]
    /\ panel = "closed"
    /\ panelTab = NoTab
    /\ rstate = "initial"
    /\ setupFrame = NoUrl
    /\ attached = 0
    /\ lastLoad = NoLoad
    /\ replaced = NoUrl
    /\ page = ScriptStarted(FALSE)
    /\ probe = NoProbe
    /\ watch = NoWatches
    /\ frames = NoFrames
    /\ other = NoSurface

\* host: outcomes of the Coordinator's chrome.runtime.sendMessage
BroadcastOutcomes ==
    IF panel = "listening" \/ other.listening THEN {"ok", OtherError}
    ELSE {ConnError}

\* host: a LOAD_SETUP{url} that was sent reaches the listener of every
\* surface that listens (sidepanel.js:701-722 runs in each)
Broadcast(outcome, url) ==
    /\ RendererBecomes(IF outcome = "ok" /\ panel = "listening"
                       THEN handleMessage(Renderer, url) ELSE Renderer)
    /\ other' = IF outcome = "ok" /\ other.listening
                THEN Surface(handleMessage(OtherRenderer, url)) ELSE other

WindowsUnchanged ==
    UNCHANGED <<coordVars, panel, panelTab, lastLoad, replaced, page, probe,
                watch, frames>>

\* part_002:92-100, the delay elapses and the first LOAD_SETUP is sent
BroadcastFirstSend(s, outcome) ==
    LET m == slots[s]
        sent == [m EXCEPT !.sendLog = Append(@, outcome)]
    IN  /\ coordinator = "part_002"
        /\ m.pc = "send"
        /\ outcome \in BroadcastOutcomes
        /\ Broadcast(outcome, m.url)
        /\ slots' = [slots EXCEPT ![s] =
                        IF outcome = "ok" THEN Finish(sent, RespSuccess(FALSE))
                        ELSE CatchOpenSidePanel(sent, outcome)]
        /\ WindowsUnchanged

\* part_002:105-115, the 300 ms timer fires and LOAD_SETUP is sent again
BroadcastRetrySend(s, outcome) ==
    LET m == slots[s]
        sent == [m EXCEPT !.sendLog = Append(@, outcome)]
    IN  /\ coordinator = "part_002"
        /\ m.pc = "retryWait"
        /\ outcome \in BroadcastOutcomes
        /\ Broadcast(outcome, m.url)
        /\ slots' = [slots EXCEPT ![s] =
                        IF outcome = "ok" THEN Finish(sent, RespSuccess(TRUE))
                        ELSE Finish(sent, RespError(outcome))]
        /\ WindowsUnchanged

\* host: the user opens the side panel in the other window; sidepanel.js:
\* 407-437, 477-534 run there and the listener is registered
OtherOpens ==
    /\ ~other.listening
    /\ other' = Surface(InitialRenderer)
    /\ UNCHANGED <<slots, rendererVars>>
    /\ WindowsUnchanged

\* host: the surface of the other window is closed (sidepanel.js:436, 442-472)
OtherCloses ==
    /\ other.listening
    /\ other' = NoSurface
    /\ UNCHANGED <<slots, rendererVars>>
    /\ WindowsUnchanged

\* sidepanel.js:820-827 in the surface of the other window: the load event
\* of its frame
OtherLoadSuccess ==
    /\ other.listening
    /\ other.setupFrame # NoUrl
    /\ other' = [other EXCEPT !.rstate = "loaded"]
    /\ UNCHANGED <<slots, rendererVars>>
    /\ WindowsUnchanged

WindowsNext ==
    \/ \E s \in Slots, u \in RecordedUrls :
           ExternalSend(s, "SETUP_LINK_CLICKED", u, PageTab)
    \/ \E s \in AllSlots : HandlePart002(s)
    \/ \E s \in Slots : OpenResolvesPart002(s)
    \/ \E s \in Slots, o \in {"ok"} \cup SendErrors : BroadcastFirstSend(s, o)
    \/ \E s \in Slots, o \in {"ok"} \cup SendErrors : BroadcastRetrySend(s, o)
    \/ \E s \in Slots : CallerReceives(s)
    \/ PanelInit(NoTab)
    \/ RendererReceives
    \/ handleLoadSuccess
    \/ OtherOpens
    \/ OtherCloses
    \/ OtherLoadSuccess

WindowsSpec == WindowsInit /\ [][WindowsNext]_vars

\* ------------------------------------------------------------------ claims
IsClick(m) == m.pc # "free" /\ m.type = "SETUP_LINK_CLICKED"

\* the step in which the Coordinator answers a GET_TAB_STATE sent for a tab
GetAnswered(s) ==
    /\ slots[s].pc = "sent"
    /\ slots[s].type = "GET_TAB_STATE"
    /\ slots[s].sender # NoTab
    /\ slots'[s].pc = "done"

ReturnsDetected(s) ==
    LET r == slots'[s].resp IN
    /\ r.kind = "state"
    /\ r.state.present
    /\ r.state.setupActive
    /\ r.state.setupUrl = lastDetected[slots[s].sender]

\* C1 as stated: after SetupDetected{url:X} from tab T is handled, a
\* GetTabState for T with no other event for T in between returns
\* setupActive = true and setupUrl = X, whatever X is.
C1_AsStated ==
    [][\A s \in AllSlots :
          (GetAnswered(s) /\ lastDetected[slots[s].sender] # NoUrl)
              => ReturnsDetected(s)]_vars

\* C1 amended: after SetupDetected{url:X} from tab T is handled, with X on a
\* monitored site (accepted by the Coordinator's isSalesforceDomain), a
\* GetTabState for T with no other event for T in between returns
\* setupActive = true and setupUrl = X.
C1_DetectedThenGet ==
    [][\A s \in AllSlots :
          (/\ GetAnswered(s)
           /\ lastDetected[slots[s].sender] # NoUrl
           /\ isSalesforceDomain(lastDetected[slots[s].sender]))
              => ReturnsDetected(s)]_vars

C1_Witness ==
    \E s \in AllSlots :
        /\ slots[s].pc = "done"
        /\ slots[s].type = "GET_TAB_STATE"
        /\ slots[s].sender # NoTab
        /\ lastDetected[slots[s].sender] = UrlA
        /\ slots[s].resp.kind = "state"
        /\ slots[s].resp.state.setupActive
        /\ slots[s].resp.state.setupUrl = UrlA

\* C2: once tab T's close notification has been processed the table holds no
\* record for T in any later state, for every interleaving.
C2_NoRecordAfterClose ==
    \A t \in Tabs : tabs[t] = "removed" => ~tabState[t].present

\* C3: for every SetupLinkClicked at most two LOAD_SETUP sends; a second send
\* only after the first failed with the connection error; that retry is sent
\* exactly once, from the retry timer; a successful retry is answered
\* {success:true, retried:true}.
C3_OneRetry ==
    \A s \in Slots :
        LET m == slots[s] IN
        IsClick(m) =>
            /\ Len(m.sendLog) <= 2
            /\ Len(m.sendLog) = 2 => m.sendLog[1] = ConnError
            /\ m.pc = "retryWait" => m.sendLog = <<ConnError>>
            /\ (m.pc = "done" /\ Len(m.sendLog) >= 1 /\ m.sendLog[1] = ConnError)
                   => Len(m.sendLog) = 2
            /\ (Len(m.sendLog) = 2 /\ m.sendLog[2] = "ok")
                   => (m.pc = "done" /\ m.resp = RespSuccess(TRUE))
            /\ m.resp.retried => m.sendLog = <<ConnError, "ok">>

C3_Witness ==
    \E s \in Slots :
        /\ IsClick(slots[s])
        /\ slots[s].sendLog = <<ConnError, "ok">>
        /\ slots[s].resp = RespSuccess(TRUE)

\* C4: a failed retry is answered with {error} and no further LOAD_SETUP is
\* sent for the click; a first send failing with any other error is answered
\* with {error} at once, with no retry.
C4_FailureSurfaced ==
    \A s \in Slots :
        LET m == slots[s] IN
        IsClick(m) =>
            /\ (Len(m.sendLog) = 2 /\ m.sendLog[2] # "ok")
                   => (m.pc = "done" /\ m.resp = RespError(m.sendLog[2]))
            /\ (Len(m.sendLog) >= 1 /\ m.sendLog[1] \notin {"ok", ConnError})
                   => (/\ m.pc = "done"
                       /\ m.resp = RespError(m.sendLog[1])
                       /\ Len(m.sendLog) = 1)
            /\ Len(m.sendLog) < 3

C4_Witness ==
    \E s \in Slots :
        /\ IsClick(slots[s])
        /\ slots[s].sendLog = <<ConnError, ConnError>>
        /\ slots[s].resp = RespError(ConnError)

C4_WitnessNoRetry ==
    \E s \in Slots :
        /\ IsClick(slots[s])
        /\ slots[s].sendLog = <<OtherError>>
        /\ slots[s].resp = RespError(OtherError)

\* C5: for a SetupLinkClicked, LOAD_SETUP is sent only after the panel-open
\* request has resolved, the success response only after a LOAD_SETUP send
\* has succeeded, and nothing is sent when the panel-open request fails.
C5_OpenThenSendThenRespond ==
    \A s \in Slots :
        LET m == slots[s] IN
        IsClick(m) =>
            /\ Len(m.sendLog) > 0 => m.openRes = "ok"
            /\ m.resp.kind = "success" =>
                   \E i \in 1..Len(m.sendLog) : m.sendLog[i] = "ok"
            /\ m.openRes = "failed" => m.sendLog = << >>
            /\ m.pc \in {"send", "retryWait"} => m.openRes = "ok"

C5_Witness ==
    \E s \in Slots :
        /\ IsClick(slots[s])
        /\ slots[s].openRes = "ok"
        /\ slots[s].sendLog = <<"ok">>
        /\ slots[s].resp = RespSuccess(FALSE)

C5_WitnessOpenFailed ==
    \E s \in Slots :
        /\ IsClick(slots[s])
        /\ slots[s].openRes = "failed"
        /\ slots[s].resp.kind = "error"

\* C6: every message delivered to the Coordinator's handler, of any type,
\* with or without url or sender tab, eventually receives exactly one
\* response, also when a step throws or a host call is rejected.  (The
\* panel's request may instead be abandoned when the surface is closed.)
C6_AnsweredOnce ==
    /\ [](\A s \in AllSlots :
             /\ slots[s].nresp <= 1
             /\ slots[s].pc = "done" => slots[s].nresp = 1
             /\ slots[s].nresp = 1 => slots[s].pc = "done")
    /\ \A s \in AllSlots :
           (slots[s].pc = "sent") ~>
               ((slots[s].pc = "done" /\ slots[s].nresp = 1)
                    \/ (s = PanelSlot /\ slots[s].pc = "free"))

C6_Witness ==
    \E s \in Slots :
        /\ slots[s].pc = "done"
        /\ slots[s].openRes = "failed"
        /\ slots[s].nresp = 1
        /\ slots[s].resp.kind = "error"

C6_WitnessThrow ==
    \E s \in Slots :
        /\ slots[s].pc = "done"
        /\ slots[s].type = "NULL"
        /\ slots[s].nresp = 1

\* C7: on a navigation-committed notification for tab T the Coordinator sets
\* T's record to isMonitoredSite = (new URL is a monitored site) and
\* setupActive = false, and enables the panel for T exactly when the new URL
\* is a monitored site.
C7_NavigationReclassifies ==
    [][\A t \in Tabs, u \in NavUrls :
          TabUpdated(t, u) =>
              /\ tabState'[t].present
              /\ tabState'[t].isSalesforceTab =
                     (IF isSalesforceDomain(u) THEN "true" ELSE "false")
              /\ ~tabState'[t].setupActive
              /\ panelEnabled'[t] = isSalesforceDomain(u)]_vars

\* C8: a record's setupUrl, once set, changes only when a SetupDetected or
\* SetupLinkClicked for the tab overwrites it or when the tab closes.
C8_SetupUrlKept ==
    [][\A t \in Tabs :
          tabState[t].setupUrl # NoUrl =>
              \/ tabState'[t].setupUrl = tabState[t].setupUrl
              \/ tabs[t] = "open" /\ tabs'[t] = "removed"
              \/ \E s \in AllSlots :
                     /\ slots[s].pc = "sent"
                     /\ slots'[s].pc # "sent"
                     /\ slots[s].type \in UrlTypes
                     /\ slots[s].sender = t
                     /\ tabState'[t].setupUrl = slots[s].url]_vars

\* C9: handling SetupDetected never requests a panel open and never sends
\* LOAD_SETUP; it updates the record and answers within the handler step.
C9_DetectedIsPassive ==
    \A s \in AllSlots :
        (slots[s].pc # "free" /\ slots[s].type = "SETUP_DETECTED") =>
            /\ slots[s].openRes = "none"
            /\ slots[s].sendLog = << >>
            /\ slots[s].pc \in {"sent", "done"}

\* C10: the Renderer never embeds a URL that validateSalesforceDomain does
\* not accept, on any path that creates or re-sources the frame.
C10_FrameValidated ==
    setupFrame # NoUrl => validateSalesforceDomain(setupFrame)

\* C11: a LOAD_SETUP whose url is not in the monitored site family (trailing
\* match on .salesforce.com, .force.com, ..., the rule of isSalesforceDomain)
\* is answered {success:false, error:'Invalid domain'}, moves the Renderer to
\* error, creates no frame and leaves an existing frame and its url unchanged.
C11_InvalidRejected ==
    [][\A u \in CommandUrls :
          (LoadSetupCommand(u) /\ u # NoUrl /\ ~isSalesforceDomain(u)) =>
              /\ lastLoad'.reply = "invalid"
              /\ rstate' = "error"
              /\ setupFrame' = setupFrame
              /\ attached' = attached]_vars

\* C12: after two sequential LOAD_SETUP commands with different valid urls A
\* then B exactly one content frame exists and it embeds B.
C12_FrameSingleton ==
    [][\A u \in CommandUrls :
          (/\ LoadSetupCommand(u)
           /\ validateSalesforceDomain(u)
           /\ validateSalesforceDomain(lastLoad.url)
           /\ lastLoad.url # u) =>
              /\ attached' = 1
              /\ setupFrame' = u
              /\ replaced' = lastLoad.url]_vars

C12_Witness ==
    /\ lastLoad = [url |-> UrlB, reply |-> "success", before |-> UrlA]
    /\ replaced = UrlA
    /\ setupFrame = UrlB
    /\ attached = 1

\* C13: when the panel surface is created or reopened while the active tab T
\* has a record with setupUrl = X, the Renderer's GET_TAB_STATE is answered
\* with T's record (the Coordinator takes T from the sender of the request),
\* so that the Renderer ends up embedding X.
C13_PanelRecovers ==
    [][(/\ slots[PanelSlot].pc = "sent"
        /\ slots'[PanelSlot].pc = "done"
        /\ panelTab # NoTab
        /\ tabState[panelTab].setupUrl # NoUrl)
          => slots'[PanelSlot].resp = RespState(tabState[panelTab])]_vars

\* C14: once a send of the Page Observer has failed with the 'Extension
\* context invalidated' condition the Observer makes no further send for the
\* rest of the page load and all its watchers are detached: the mutation
\* observer, the load listener, the click-capture listener and any pending
\* retry timer.
C14_StopsAfterInvalidation ==
    page.failedInvalidated =>
        /\ page.lateSends = 0
        /\ ~page.observing
        /\ ~page.loadListener
        /\ page.clickListeners = 0
        /\ page.timers = << >>

\* the retries the one-retry rule of the Coordinator allows
RetryLimit == 1

\* C15: no unbounded retry exists: the re-sends one failed send triggers are
\* bounded by a constant, in the Coordinator's LOAD_SETUP path and in the
\* Observer's SETUP_DETECTED path alike, also when the channel keeps failing.
C15_RetryBounded ==
    /\ \A s \in Slots : Len(slots[s].sendLog) <= RetryLimit + 1
    /\ page.pending <= RetryLimit
    /\ \A i \in 1..Len(page.timers) : page.timers[i] <= RetryLimit

\* C16: every click inside an anchor whose href is a Setup url, whether or
\* not the page itself is classified as Setup, has its default navigation
\* prevented and SETUP_LINK_CLICKED emitted, and the tab is not navigated at
\* all, also when the send fails.
C16_ClickIntercepted ==
    /\ page.lastClick \in {"none", "intercepted"}
    /\ ~page.navigated

\* a SETUP_LINK_CLICKED handler between its panel-open request and its
\* final response
MidFlight(s) ==
    /\ slots[s].type = "SETUP_LINK_CLICKED"
    /\ slots[s].pc \in {"open", "send", "retryWait"}

\* C17: for one tab the Coordinator runs its handlers to completion one at a
\* time: while a SETUP_LINK_CLICKED handler for T is between its panel-open
\* request and its final response no other handler for T (message,
\* navigation-committed, close) starts.
C17_OneHandlerAtATime ==
    [][\A s \in Slots :
          MidFlight(s) =>
              LET t == slots[s].sender IN
              /\ tabs'[t] = tabs[t]
              /\ tabState'[t] = tabState[t]
              /\ \A s2 \in AllSlots \ {s} :
                     ~(/\ slots[s2].sender = t
                       /\ slots[s2].pc = "sent"
                       /\ slots'[s2].pc \notin {"sent", "free"})]_vars

\* C18: handling SETUP_DETECTED{url:X} twice in a row for the same tab
\* leaves the same tab table as handling it once.
C18_DetectedIdempotent ==
    [][\A s \in Slots :
          (/\ slots[s].pc = "sent"
           /\ slots'[s].pc # "sent"
           /\ slots[s].type = "SETUP_DETECTED"
           /\ slots[s].sender # NoTab
           /\ slots[s].url # NoUrl
           /\ lastDetected[slots[s].sender] = slots[s].url)
              => tabState' = tabState]_vars

C18_Witness ==
    \E s \in Slots :
        /\ slots[s].type = "SETUP_DETECTED"
        /\ slots[s].pc \in {"open", "done"}
        /\ slots[s].url = UrlA
        /\ slots[s].sender # NoTab
        /\ detectedRun[slots[s].sender] = 2
        /\ lastDetected[slots[s].sender] = UrlA
        /\ tabState[slots[s].sender].setupActive
        /\ tabState[slots[s].sender].setupUrl = UrlA

C20_UnknownTypeAnswered ==
    [][\A s \in Slots :
          (/\ slots[s].pc = "sent"
           /\ slots'[s].pc # "sent"
           /\ slots[s].type = "OTHER")
              => /\ slots'[s].pc = "done"
                 /\ slots'[s].nresp = 1
                 /\ slots'[s].resp.kind = "error"
                 /\ slots'[s].resp.error = "Unknown message type"
                 /\ tabState' = tabState]_vars

C20_Witness ==
    \E s \in Slots :
        /\ slots[s].pc = "done"
        /\ slots[s].type = "OTHER"
        /\ slots[s].nresp = 1
        /\ slots[s].resp.kind = "error"
        /\ slots[s].resp.error = "Unknown message type"

\* C21: a SETUP_ERROR message sent to the Coordinator is answered
\* {received:true} and changes no tab record.
C21_SetupErrorReceived ==
    [][\A s \in Slots :
          (/\ slots[s].pc = "sent"
           /\ slots'[s].pc # "sent"
           /\ slots[s].type = "SETUP_ERROR")
              => /\ slots'[s].pc = "done"
                 /\ slots'[s].nresp = 1
                 /\ slots'[s].resp = RespReceived
                 /\ tabState' = tabState]_vars

\* a LOAD_SETUP send of the Coordinator has failed
ChannelFailed ==
    \E s \in Slots, i \in 1..2 :
        i <= Len(slots[s].sendLog) /\ slots[s].sendLog[i] # "ok"

\* C22: with no channel or load failure and fair scheduling, after the page
\* has reported SETUP_DETECTED and the user then clicks an anchor whose href
\* is the Setup url U, eventually the tab's record has setupActive = true
\* and setupUrl = U, eventually the panel has been opened for the tab, and
\* eventually the Renderer embeds U in display state loaded.
C22_EndToEnd ==
    (<>(page.lastClick # "none")) =>
        \/ <>ChannelFailed
        \/ /\ <>(/\ tabState[PageTab].setupActive
                 /\ tabState[PageTab].setupUrl = ClickHref)
           /\ <>(panel # "closed" /\ panelTab = PageTab)
           /\ <>(setupFrame = ClickHref /\ rstate = "loaded")

\* the Setup path fragments configured for the url's site: SETUP_PATTERNS in
\* content.js, the setupPatterns of the site's entry in part_004
SetupFragments(variant, url) ==
    LET cfg == ObserverConfig(variant)
        m == MatchingEntries(cfg, ParseURL(url).hostname)
    IN  IF variant = "content" THEN SETUP_PATTERNS
        ELSE UNION {cfg[i].setupPatterns : i \in m}

HasSetupFragment(variant, url) ==
    \E pat \in SetupFragments(variant, url) :
        pat = <<"*">> \/ Includes(toLowerCase(Pathname(url)), toLowerCase(pat))

\* C23: for every monitored url whose path contains a configured Setup path
\* fragment isSetupPage returns true; for a monitored url with no such
\* fragment and no Setup DOM markers, isSetupPage combined with
\* checkForSetupMenu is false.
C23_SetupClassified ==
    (probe.setupPage # "unset" /\ probe.observerSite = "true") =>
        /\ HasSetupFragment(probe.variant, probe.url) => probe.setupPage = "true"
        /\ (~HasSetupFragment(probe.variant, probe.url) /\ ~probe.markers)
               => (probe.setupPage = "false" /\ probe.setupNow = "false")

\* C24: the site classifiers fail closed: for every input that is not a
\* well-formed url (new URL() rejects it), isSalesforceDomain of the
\* Observer and of the Coordinator and validateSalesforceDomain of the
\* Renderer return false and no exception escapes.
C24_FailClosed ==
    (probe.observerSite # "unset" /\ ~ParseURL(probe.url).ok) =>
        /\ probe.observerSite = "false"
        /\ probe.coordinatorSite = "false"
        /\ probe.rendererSite = "false"

C24_Witness ==
    /\ probe.url = UrlMalformed
    /\ probe.variant = "content"
    /\ probe.observerSite = "false"
    /\ probe.coordinatorSite = "false"
    /\ probe.rendererSite = "false"

\* the dot-prefixed suffixes of the monitored site family
DottedSuffix(hostname) ==
    \E d \in CoordinatorDomains : EndsWith(hostname, d)

\* C25: the three components classify sites identically: for every url the
\* Observer's and the Coordinator's isSalesforceDomain and the Renderer's
\* validateSalesforceDomain return the same result, and each accepts a
\* hostname only when it ends with one of the dot-prefixed suffixes
\* ('evilsalesforce.com' is rejected by all three).
C25_ClassifiersAgree ==
    probe.observerSite # "unset" =>
        /\ probe.observerSite = probe.coordinatorSite
        /\ probe.coordinatorSite = probe.rendererSite
        /\ \A r \in {probe.observerSite, probe.coordinatorSite, probe.rendererSite} :
               r = "true" => DottedSuffix(ParseURL(probe.url).hostname)

\* C26: the Observer emits SETUP_DETECTED only on a transition: once a
\* SETUP_DETECTED for the page's location has been delivered, DOM mutations
\* and load events that leave the location and the classification unchanged
\* cause no further SETUP_DETECTED send.
C26_ReportsOnTransitionOnly ==
    page.repeats = 0

\* C27: each click-watch started for a Setup control without an href is torn
\* down on whichever comes first, its callback finding the location to be a
\* Setup url or the 3 s timeout: from then on its observer is disconnected;
\* it sends at most one SETUP_LINK_CLICKED in its lifetime and none after
\* the timeout; no watch is left observing for ever.
C27_WatchTornDown ==
    /\ [](\A i \in Watches :
             LET W == watch.w[i] IN
             /\ W.sends <= 1
             /\ W.sends = 1 => ~W.connected
             /\ W.timedOut => ~W.connected
             /\ W.lateSends = 0
             /\ W.connected => W.timer)
    /\ \A i \in Watches : watch.w[i].connected ~> ~watch.w[i].connected

C27_Witness ==
    \E i \in Watches, j \in Watches :
        /\ watch.w[i].sends = 1
        /\ watch.w[i].timedOut
        /\ ~watch.w[i].connected
        /\ watch.w[j].timedOut
        /\ watch.w[j].sends = 0
        /\ ~watch.w[j].connected
        /\ watch.setupUrl

\* C28: in every reachable state of the Renderer at most one content frame
\* is attached to the panel document, and setupFrame refers to that frame
\* whenever one is attached.
C28_AtMostOneFrame ==
    /\ attached <= 1
    /\ attached = 1 => setupFrame # NoUrl

C28_Witness ==
    /\ panel = "listening"
    /\ attached = 1
    /\ setupFrame = UrlB
    /\ rstate = "loaded"
    /\ \E t \in Tabs : tabState[t].setupUrl = UrlA

\* C29: loading a url puts the Renderer in display state loading; from
\* loading, the load event of the current frame moves it to loaded and the
\* error event of the current frame moves it to error; no other event moves
\* it to loaded.
C29_DisplayStates ==
    [][/\ (setupFrame' # NoUrl /\ setupFrame' # setupFrame)
              => rstate' = "loading"
       /\ (handleLoadSuccess /\ rstate = "loading") => rstate' = "loaded"
       /\ (handleLoadError /\ rstate = "loading") => rstate' = "error"
       /\ (rstate' = "loaded" /\ rstate # "loaded")
              => (handleLoadSuccess /\ attached = 1)]_vars

C29_Witness ==
    /\ panel = "listening"
    /\ rstate = "loaded"
    /\ setupFrame = UrlA
    /\ attached = 1
    /\ \A s \in AllSlots : slots[s].pc = "free"

\* C30: when the panel surface regains visibility the Renderer re-queries
\* GET_TAB_STATE and, if the returned setupUrl differs from the url it
\* embeds, replaces the frame so that it embeds the returned setupUrl; if
\* the returned setupUrl equals the embedded url, the frame and the display
\* state are left unchanged.
C30_VisibilityReconciles ==
    [][(/\ RendererReceives
        /\ slots[PanelSlot].resp.kind = "state"
        /\ slots[PanelSlot].resp.state.setupUrl # NoUrl)
          => IF slots[PanelSlot].resp.state.setupUrl = setupFrame
             THEN /\ rstate' = rstate
                  /\ setupFrame' = setupFrame
                  /\ attached' = attached
             ELSE /\ setupFrame' = slots[PanelSlot].resp.state.setupUrl
                  /\ attached' = 1]_vars

\* C31: when the content frame raises its error event the Renderer moves to
\* display state error and a SETUP_ERROR message of the panel page is on its
\* way to the Coordinator; the Renderer stays operational: a valid LOAD_SETUP
\* delivered in display state error is accepted and loads a frame.
C31_ErrorReported ==
    [][/\ handleLoadError =>
              /\ rstate' = "error"
              /\ \E s \in AllSlots : /\ slots'[s] # slots[s]
                                     /\ slots'[s].pc = "sent"
                                     /\ slots'[s].type = "SETUP_ERROR"
       /\ \A s \in Slots :
              (/\ rstate = "error"
               /\ FirstSend(s, "ok")
               /\ validateSalesforceDomain(slots[s].url))
                  => /\ rstate' = "loading"
                     /\ setupFrame' = slots[s].url
                     /\ attached' = 1]_vars

\* the elements agree with the Renderer's fields
FramesAgree ==
    /\ setupFrame = (IF frames.cur = 0 THEN NoUrl ELSE frames.f[frames.cur].src)
    /\ attached = Cardinality({i \in FrameIds : frames.f[i].inDoc})

\* C32: the retry button of the error state and the refresh control do one
\* of two things: with a frame, the display state becomes loading and the
\* src of that same frame is set again, no frame being created or removed;
\* without a frame, GET_TAB_STATE is sent and nothing else changes.
C32_RetryRefresh ==
    [][\A t \in Senders :
          (handleRefreshClick(t) \/ RetryClick(t)) =>
              IF frames.cur # 0
              THEN /\ rstate' = "loading"
                   /\ frames'.cur = frames.cur
                   /\ \A i \in FrameIds :
                          /\ frames'.f[i].src = frames.f[i].src
                          /\ frames'.f[i].inDoc = frames.f[i].inDoc
                   /\ setupFrame' = setupFrame /\ attached' = attached
                   /\ slots' = slots
              ELSE /\ slots'[PanelSlot].pc = "sent"
                   /\ slots'[PanelSlot].type = "GET_TAB_STATE"
                   /\ UNCHANGED <<rendererVars, frames, coordVars>>]_vars

C32_Witness ==
    /\ rstate = "loading"
    /\ frames.cur # 0
    /\ frames.f[frames.cur].reloaded
    /\ ~frames.f[frames.cur].loadRaised
    /\ attached = 1
    /\ \E i \in FrameIds : i # frames.cur /\ frames.f[i].src # NoUrl

\* C33: the per-tab record follows Unmonitored -> Monitored -> SetupActive:
\* in every reachable state a record with setupActive = true also has
\* isSalesforceTab = true.
C33_SetupActiveIsMonitored ==
    \A t \in Tabs :
        tabState[t].setupActive => tabState[t].isSalesforceTab = "true"

\* C34: a SETUP_DETECTED or SETUP_LINK_CLICKED whose url is not on a
\* monitored site is answered with an error and leaves the tab table
\* unchanged; no panel open is requested and no LOAD_SETUP is sent for it.
C34_InvalidUrlRejected ==
    [][\A s \in Slots :
          (/\ HandlePart002(s) \/ HandleBackground(s)
           /\ slots[s].type \in UrlTypes
           /\ slots[s].url # NoUrl
           /\ ~isSalesforceDomain(slots[s].url))
              => /\ slots'[s].pc = "done"
                 /\ slots'[s].resp.kind = "error"
                 /\ slots'[s].openRes = "none"
                 /\ slots'[s].sendLog = << >>
                 /\ tabState' = tabState]_vars

\* a LOAD_SETUP of the click in slot s was delivered to the panel
Delivered(s) ==
    \E i \in 1..Len(slots[s].sendLog) : slots[s].sendLog[i] = "ok"

\* C35: if SETUP_LINK_CLICKED{A} and then SETUP_LINK_CLICKED{B} are handled
\* for the same tab, then once every send and retry of both has completed
\* and the LOAD_SETUP of B was delivered, the url embedded in the panel is
\* B, the setupUrl of the tab's record.
C35_LastClickWins ==
    (/\ slots[FirstClick].pc = "done"
     /\ slots[SecondClick].pc = "done"
     /\ Delivered(SecondClick)
     /\ panel = "listening")
        => /\ tabState[PageTab].setupUrl = UrlB
           /\ setupFrame = tabState[PageTab].setupUrl

\* C36: a LOAD_SETUP issued for a SETUP_LINK_CLICKED from tab T changes only
\* the panel surface opened for T: the surface that belongs to a tab of
\* another window keeps its frame and its display state.
C36_OtherSurfaceUntouched ==
    [][\A s \in Slots, o \in {"ok"} \cup SendErrors :
          (/\ BroadcastFirstSend(s, o) \/ BroadcastRetrySend(s, o)
           /\ slots[s].sender = PageTab)
              => other' = other]_vars

\* C37: one user click on a Setup anchor makes the Observer emit at most one
\* SETUP_LINK_CLICKED, however many times checkAndReportSetupPage has run
\* on the page before the click.
C37_OneClickOneMessage ==
    page.clicks <= 1

\* C38: after a frame has been replaced by a newer one, the load and error
\* events of the replaced frame do not change the Renderer's display state,
\* and display state loaded always refers to the frame now embedded: its
\* load event has been raised since its src was last set.
C38_ReplacedFrameSilent ==
    [][/\ rstate' = "loaded" =>
              /\ frames'.cur # 0
              /\ frames'.f[frames'.cur].inDoc
              /\ frames'.f[frames'.cur].loadRaised
       /\ \A i \in FrameIds :
              (/\ FrameLoad(i) \/ FrameError(i)
               /\ i # frames.cur)
                  => rstate' = rstate]_vars

C38_Witness ==
    /\ rstate = "loading"
    /\ frames.cur # 0
    /\ ~frames.f[frames.cur].loadRaised
    /\ \E i \in FrameIds : /\ i # frames.cur
                           /\ frames.f[i].late
                           /\ frames.f[i].loadRaised
                           /\ frames.f[i].src # setupFrame

=============================================================================
